---------------------------- MODULE Spec2Model ----------------------------
(***************************************************************************)
(* A model of the analysis scripts of the repository: the commit-log       *)
(* parser and the commit classifier of commit_type_analysis, and the runs  *)
(* of commit_frequency_analysis, contributor_analysis, release_analysis,   *)
(* basic_commit_stats and analyze_bugs.  One script runs in a behaviour.   *)
(*                                                                         *)
(* Python strings are TLA+ strings (Len, SubSeq and \o are the only        *)
(* primitives used); Python None for an optional value is the empty set    *)
(* and a present value v is {v}; a Python object reference is an index     *)
(* into `heap`, so that two references to one dict stay aliased.           *)
(***************************************************************************)
EXTENDS Integers, Sequences, FiniteSets, TLC

VARIABLES
    pc,              \* position in get_commit_data
    stdout,          \* result.stdout of the git log call
    lines,           \* result.stdout.strip().split('\n')
    i,               \* index of the next element of `lines` the for loop reads
    heap,            \* the commit dicts created so far, by reference
    commits,         \* the list `commits`: references into heap
    current_commit,  \* reference of current_commit, 0 for None
    returned,        \* what get_commit_data returned: "pending", "None", "commits"
    cpc,             \* position of a direct call of classify_commit_type
    message,         \* its argument
    label,           \* its return value
    tpc,             \* position of a direct call of classify_contributor
    row,             \* its argument: commit_count and active_days of a row
    tier,            \* its return value
    script,          \* the script that was started, "none" before
    calls,           \* the external commands issued so far, in order
    stages,          \* the functions main has called so far, in order
    written,         \* the files written so far, in order
    status,          \* "running", "returned", "raised" or "exit 1"
    flask_exists,    \* what flask_path.exists() answered: {} before it is asked
    kpc,             \* position in contributor_analysis
    klines,          \* result.stdout.strip().split('\n') of get_contributor_data
    ki,              \* index of the next element of `klines`
    kcommits,        \* the list `commits` of get_contributor_data
    kreturned,       \* what it returned: "pending", "None", "commits"
    author_stats,    \* the rows of the author_stats frame
    patterns_k,      \* the dict `patterns` of analyze_contribution_patterns
    bpc,             \* position in analyze_bugs
    status_code,     \* response.status_code, 0 before the response
    issues,          \* the list fetch_bugs returned
    bi,              \* index of the next element of `issues` the loop reads
    data_list,       \* the list `data_list` of analyze_and_save
    mpc,             \* position in main of commit_type_analysis
    fpc,             \* position in commit_frequency_analysis
    flines,          \* result.stdout.strip().split('\n') of its get_commit_data
    fi,              \* index of the next element of `flines`
    fcommits,        \* the list `commits` of its get_commit_data
    freturned,       \* what it returned: "pending", "None", "commits"
    spc,             \* position in basic_commit_stats
    returncodes,     \* the exit codes of its git commands so far, in order
    rpc,             \* position in release_analysis
    tags,            \* the list `tags` of get_release_data
    ri,              \* index of the next element of `tags`
    releases,        \* the list `releases`, then the rows of releases_df
    rreturned,       \* what get_release_data returned: "pending", "None", "frame"
    apc,             \* position of a direct call of analyze_commits
    arg_commits,     \* the argument `commits` of analyze_commits, as dicts
    type_stats,      \* its local type_stats: {} before it is assigned
    file_stats,      \* its local file_stats, the sorted frame, as rows
    sizes,           \* its locals small, medium and large
    vpc,             \* position of a direct call of parse_version_number
    tag_arg,         \* its argument
    version_info     \* the dict it returns

parserVars == <<pc, stdout, lines, i, heap, commits, current_commit, returned>>
classifyVars == <<cpc, message, label>>
tierVars == <<tpc, row, tier>>
runVars == <<script, calls, stages, written, status, flask_exists>>
contribVars == <<kpc, klines, ki, kcommits, kreturned, author_stats, patterns_k>>
bugVars == <<bpc, status_code, issues, bi, data_list>>
typeMainVars == <<mpc>>
freqVars == <<fpc, flines, fi, fcommits, freturned>>
basicVars == <<spc, returncodes>>
releaseVars == <<rpc, tags, ri, releases, rreturned>>
analyzeVars == <<apc, arg_commits, type_stats, file_stats, sizes>>
versionVars == <<vpc, tag_arg, version_info>>

vars == <<parserVars, classifyVars, tierVars, runVars, contribVars, bugVars,
          typeMainVars, freqVars, basicVars, releaseVars, analyzeVars,
          versionVars>>

\* what the steps of get_commit_data leave alone, the run's record apart
exceptParser ==
    <<classifyVars, tierVars, contribVars, bugVars, typeMainVars, freqVars, basicVars, releaseVars,
      analyzeVars, versionVars>>

\* what a call of classify_commit_type leaves alone
exceptClassify ==
    <<parserVars, tierVars, runVars, contribVars, bugVars, typeMainVars, freqVars, basicVars, releaseVars,
      analyzeVars, versionVars>>

\* what a call of classify_contributor leaves alone
exceptTier ==
    <<parserVars, classifyVars, runVars, contribVars, bugVars, typeMainVars, freqVars, basicVars, releaseVars,
      analyzeVars, versionVars>>

\* what the steps of contributor_analysis leave alone, the run's record apart
exceptContrib ==
    <<parserVars, classifyVars, tierVars, bugVars, typeMainVars, freqVars, basicVars, releaseVars,
      analyzeVars, versionVars>>

\* what the steps of analyze_bugs leave alone, the run's record apart
exceptBugs ==
    <<parserVars, classifyVars, tierVars, contribVars, typeMainVars, freqVars, basicVars, releaseVars,
      analyzeVars, versionVars>>

\* what the steps of main of commit_type_analysis after get_commit_data
\* leave alone, the run's record apart
exceptTypeMain ==
    <<parserVars, classifyVars, tierVars, contribVars, bugVars,
      freqVars, basicVars, releaseVars, versionVars>>

\* what the steps of commit_frequency_analysis leave alone, the run's record
\* apart
exceptFreq ==
    <<parserVars, classifyVars, tierVars, contribVars, bugVars,
      typeMainVars, basicVars, releaseVars,
      analyzeVars, versionVars>>

\* what the steps of basic_commit_stats leave alone, the run's record apart
exceptBasic ==
    <<parserVars, classifyVars, tierVars, contribVars, bugVars,
      typeMainVars, freqVars, releaseVars,
      analyzeVars, versionVars>>

\* what a direct call of analyze_commits leaves alone
exceptAnalyze ==
    <<parserVars, classifyVars, tierVars, runVars, contribVars, bugVars,
      typeMainVars, freqVars, basicVars, releaseVars, versionVars>>

\* what a direct call of parse_version_number leaves alone
exceptVersion ==
    <<parserVars, classifyVars, tierVars, runVars, contribVars, bugVars,
      typeMainVars, freqVars, basicVars, releaseVars, analyzeVars>>

\* what the steps of release_analysis leave alone, the run's record apart
exceptRelease ==
    <<parserVars, classifyVars, tierVars, contribVars, bugVars,
      typeMainVars, freqVars, basicVars,
      analyzeVars, versionVars>>

-----------------------------------------------------------------------------
(* Bounds of the model *)

MaxLines == 3

MaxWords == 2

MaxCommitCount == 101

MaxActiveDays == 366

MaxIssues == 3

MaxTags == 2

MaxLog == 4

MaxVersion == 2

-----------------------------------------------------------------------------
(* The record of a run *)

\* an external command that is issued again after its first attempt
invoke_with_retry(log, cmd) == Append(Append(log, cmd), cmd)

\* subprocess.run(...) or requests.get(...): the command is issued
invoke(log, cmd) == Append(log, cmd)

-----------------------------------------------------------------------------
(* Python str primitives *)

Ch(s, k) == SubSeq(s, k, k)

SetMin(S) == CHOOSE x \in S : \A y \in S : x <= y

SetMax(S) == CHOOSE x \in S : \A y \in S : x >= y

\* c in s, for a one-character c
Contains(s, c) == \E k \in 1..Len(s) : Ch(s, k) = c

Whitespace == {" ", "\t", "\n", "\r"}

\* str.strip()
Strip(s) ==
    LET ks == {k \in 1..Len(s) : Ch(s, k) \notin Whitespace}
    IN  IF ks = {} THEN "" ELSE SubSeq(s, SetMin(ks), SetMax(ks))

\* str.split(sep, maxsplit) for a one-character sep; maxsplit = -1 is unlimited
RECURSIVE Split(_, _, _)
Split(s, sep, maxsplit) ==
    LET ks == {k \in 1..Len(s) : Ch(s, k) = sep}
    IN  IF maxsplit = 0 \/ ks = {}
        THEN <<s>>
        ELSE LET k == SetMin(ks)
             IN  <<SubSeq(s, 1, k - 1)>>
                     \o Split(SubSeq(s, k + 1, Len(s)), sep, maxsplit - 1)

\* sep.join(parts)
RECURSIVE Join(_, _)
Join(parts, sep) ==
    IF Len(parts) = 0 THEN ""
    ELSE IF Len(parts) = 1 THEN parts[1]
    ELSE parts[1] \o sep \o Join(Tail(parts), sep)

DigitChars == "0123456789"

IsDigit(c) == \E d \in 1..10 : Ch(DigitChars, d) = c

DigitVal(c) == (CHOOSE d \in 1..10 : Ch(DigitChars, d) = c) - 1

RECURSIVE DigitsValue(_, _)
DigitsValue(s, acc) ==
    IF s = "" THEN acc
    ELSE IF Ch(s, 1) = "_" THEN DigitsValue(SubSeq(s, 2, Len(s)), acc)
    ELSE DigitsValue(SubSeq(s, 2, Len(s)), 10 * acc + DigitVal(Ch(s, 1)))

\* int(s): [ok |-> FALSE] stands for ValueError
PyInt(s) ==
    LET t    == Strip(s)
        neg  == t # "" /\ Ch(t, 1) = "-"
        sgn  == t # "" /\ Ch(t, 1) \in {"-", "+"}
        body == IF sgn THEN SubSeq(t, 2, Len(t)) ELSE t
        wellFormed ==
            /\ body # ""
            /\ \A k \in 1..Len(body) : IsDigit(Ch(body, k)) \/ Ch(body, k) = "_"
            /\ IsDigit(Ch(body, 1))
            /\ IsDigit(Ch(body, Len(body)))
            /\ \A k \in 1..(Len(body) - 1) :
                   ~(Ch(body, k) = "_" /\ Ch(body, k + 1) = "_")
    IN  IF wellFormed
        THEN [ok |-> TRUE,
              val |-> IF neg THEN 0 - DigitsValue(body, 0) ELSE DigitsValue(body, 0)]
        ELSE [ok |-> FALSE, val |-> 0]

UpperChars == "ABCDEFGHIJKLMNOPQRSTUVWXYZ"

LowerChars == "abcdefghijklmnopqrstuvwxyz"

LowerCh(c) ==
    IF \E k \in 1..26 : Ch(UpperChars, k) = c
    THEN Ch(LowerChars, CHOOSE k \in 1..26 : Ch(UpperChars, k) = c)
    ELSE c

\* str.lower() left out, and the match made case-sensitive
Lower_case_sensitive(s) == s

\* str.lower()
RECURSIVE Lower(_)
Lower(s) ==
    IF s = "" THEN "" ELSE LowerCh(Ch(s, 1)) \o Lower(SubSeq(s, 2, Len(s)))

\* a character of the regular-expression class \w
IsWordCh(c) ==
    \/ \E k \in 1..26 : Ch(UpperChars, k) = c \/ Ch(LowerChars, k) = c
    \/ IsDigit(c)
    \/ c = "_"

-----------------------------------------------------------------------------
(* classify_commit_type *)

\* A Python value handed to classify_commit_type: its type and, for a str, its text
Str(s) == [type |-> "str", val |-> s]

NonStrings ==
    {[type |-> "NoneType", val |-> "None"],
     [type |-> "int", val |-> "5"],
     [type |-> "float", val |-> "nan"]}

\* r'<word>\b' and, for the one pattern that has it, r'<word>\b.*<then>'
Kw(w) == [word |-> w, then |-> ""]

\* the dict `patterns`, in insertion order
patterns == <<
    [type |-> "feature",
     regex_list |-> <<Kw("add"), Kw("feat"), Kw("feature"), Kw("new"), Kw("implement")>>],
    [type |-> "bugfix",
     regex_list |-> <<Kw("fix"), Kw("bug"), Kw("issue"), Kw("error"), Kw("bugfix")>>],
    [type |-> "refactor",
     regex_list |-> <<Kw("refactor"), Kw("cleanup"), Kw("clean"), Kw("optimize")>>],
    [type |-> "documentation",
     regex_list |-> <<Kw("doc"), Kw("documentation"), Kw("readme"), Kw("comment")>>],
    [type |-> "test",
     regex_list |-> <<Kw("test"), Kw("unit"), Kw("coverage"), Kw("fixture")>>],
    [type |-> "style",
     regex_list |-> <<Kw("style"), Kw("format"), Kw("pep8"), Kw("whitespace")>>],
    [type |-> "chore",
     regex_list |-> <<Kw("chore"), Kw("bump"),
                      [word |-> "update", then |-> "version"], Kw("dependency")>>],
    [type |-> "performance",
     regex_list |-> <<Kw("performance"), Kw("optimization"), Kw("speed")>>] >>

\* the search for r'\b<word>\b': a word boundary before the word as well
re_search_whole_word(pattern, s) ==
    LET t == Lower(s)
        w == pattern.word
        u == pattern.then
    IN  \E p \in 1..Len(t) :
            LET e == p + Len(w) - 1
            IN  /\ e <= Len(t)
                /\ SubSeq(t, p, e) = w
                /\ (p = 1 \/ ~IsWordCh(Ch(t, p - 1)))
                /\ (e = Len(t) \/ ~IsWordCh(Ch(t, e + 1)))
                /\ \/ u = ""
                   \/ \E q \in (e + 1)..(Len(t) - Len(u) + 1) :
                          /\ SubSeq(t, q, q + Len(u) - 1) = u
                          /\ ~Contains(SubSeq(t, e + 1, q - 1), "\n")

\* re.search(pattern, s, re.IGNORECASE): the word at some position, a word
\* boundary right after it, and for `.*<then>` the text `then` anywhere later on
\* the same line
re_search(pattern, s) ==
    LET t == Lower(s)
        w == pattern.word
        u == pattern.then
    IN  \E p \in 1..Len(t) :
            LET e == p + Len(w) - 1
            IN  /\ e <= Len(t)
                /\ SubSeq(t, p, e) = w
                /\ (e = Len(t) \/ ~IsWordCh(Ch(t, e + 1)))
                /\ \/ u = ""
                   \/ \E q \in (e + 1)..(Len(t) - Len(u) + 1) :
                          /\ SubSeq(t, q, q + Len(u) - 1) = u
                          /\ ~Contains(SubSeq(t, e + 1, q - 1), "\n")

\* the loops without the early return: the last matching group wins
RECURSIVE LastMatch(_, _)
LastMatch(m, k) ==
    IF k = 0 THEN "other"
    ELSE IF \E j \in 1..Len(patterns[k].regex_list) :
                re_search(patterns[k].regex_list[j], m)
         THEN patterns[k].type
         ELSE LastMatch(m, k - 1)

FirstMatch_last_wins(m, k, j) == LastMatch(m, Len(patterns))

\* the two nested for loops over patterns.items() and regex_list
RECURSIVE FirstMatch(_, _, _)
FirstMatch(m, k, j) ==
    IF k > Len(patterns) THEN "other"
    ELSE IF j > Len(patterns[k].regex_list) THEN FirstMatch(m, k + 1, 1)
    ELSE IF re_search(patterns[k].regex_list[j], m) THEN patterns[k].type
    ELSE FirstMatch(m, k, j + 1)

\* classify_commit_type with the isinstance guard left out: message.lower()
\* raises AttributeError on a value that is no str
classify_no_guard(msg) ==
    IF msg.type # "str" THEN "AttributeError" ELSE FirstMatch(Lower(msg.val), 1, 1)

classify_commit_type(msg) ==
    IF msg.type # "str" THEN "other" ELSE FirstMatch(Lower(msg.val), 1, 1)

-----------------------------------------------------------------------------
(* get_commit_data: the values it builds *)

NaT == "NaT"

IsDigits(s) == \A k \in 1..Len(s) : IsDigit(Ch(s, k))

\* pd.to_datetime(s) for the strings of this model: a date YYYY-MM-DD is the
\* Timestamp of that day, the empty string is NaT, and any other text makes
\* the parser raise.  [ok |-> FALSE] stands for the exception.
to_datetime(s) ==
    IF s = "" THEN [ok |-> TRUE, val |-> NaT]
    ELSE IF /\ Len(s) = 10
            /\ Ch(s, 5) = "-" /\ Ch(s, 8) = "-"
            /\ IsDigits(SubSeq(s, 1, 4))
            /\ IsDigits(SubSeq(s, 6, 7))
            /\ IsDigits(SubSeq(s, 9, 10))
            /\ PyInt(SubSeq(s, 6, 7)).val \in 1..12
            /\ PyInt(SubSeq(s, 9, 10)).val \in 1..31
         THEN [ok |-> TRUE, val |-> s]
         ELSE [ok |-> FALSE, val |-> NaT]

\* try: date_obj = pd.to_datetime(date.strip())  except: date_obj = pd.NaT
date_obj(date) ==
    IF to_datetime(Strip(date)).ok THEN to_datetime(Strip(date)).val ELSE NaT

\* int(date.strip().split('-')[0]) if date.strip() and '-' in date else None
\* [ok |-> FALSE] stands for the ValueError of int()
year_of(date) ==
    IF Strip(date) # "" /\ Contains(date, "-")
    THEN LET n == PyInt(Split(Strip(date), "-", -1)[1])
         IN  IF n.ok THEN [ok |-> TRUE, val |-> {n.val}]
                     ELSE [ok |-> FALSE, val |-> {}]
    ELSE [ok |-> TRUE, val |-> {}]

\* date.strip()[:7] if date.strip() and len(date.strip()) >= 7 else None
month_of(date) ==
    IF Strip(date) # "" /\ Len(Strip(date)) >= 7
    THEN {SubSeq(Strip(date), 1, 7)}
    ELSE {}

\* the dict literal assigned to current_commit
new_commit(parts) ==
    [hash          |-> Strip(parts[1]),
     author        |-> Strip(parts[2]),
     date          |-> date_obj(parts[3]),
     message       |-> Strip(parts[4]),
     year          |-> year_of(parts[3]).val,
     month         |-> month_of(parts[3]),
     files         |-> <<>>,
     additions     |-> 0,
     deletions     |-> 0,
     changed_lines |-> 0,
     file_count    |-> 0,
     commit_type   |-> classify_commit_type(Str(Strip(parts[4])))]

\* stat_counts with the placeholder of a binary file kept as the marker -1
stat_counts_marker(additions_str, deletions_str) ==
    [additions |-> IF additions_str = "-" THEN 0 - 1
                   ELSE IF PyInt(additions_str).ok THEN PyInt(additions_str).val ELSE 0,
     deletions |-> IF deletions_str = "-" THEN 0 - 1
                   ELSE IF PyInt(additions_str).ok /\ PyInt(deletions_str).ok
                        THEN PyInt(deletions_str).val ELSE 0]

\* additions = 0; deletions = 0; both conversions inside one try whose
\* except clause is `pass`
stat_counts(additions_str, deletions_str) ==
    IF additions_str # "-" /\ ~PyInt(additions_str).ok
    THEN [additions |-> 0, deletions |-> 0]
    ELSE LET a == IF additions_str # "-" THEN PyInt(additions_str).val ELSE 0
         IN  IF deletions_str # "-" /\ ~PyInt(deletions_str).ok
             THEN [additions |-> a, deletions |-> 0]
             ELSE [additions |-> a,
                   deletions |-> IF deletions_str # "-"
                                 THEN PyInt(deletions_str).val ELSE 0]

\* add_file without `current_commit['deletions'] += deletions`
add_file_no_deletions(commit, filename, additions, deletions) ==
    [commit EXCEPT
        !.files = Append(@, [filename      |-> filename,
                             additions     |-> additions,
                             deletions     |-> deletions,
                             changed_lines |-> additions + deletions]),
        !.additions     = @ + additions,
        !.changed_lines = @ + (additions + deletions),
        !.file_count    = @ + 1]

\* current_commit['files'].append({...}) and the four += on the commit
add_file(commit, filename, additions, deletions) ==
    [commit EXCEPT
        !.files = Append(@, [filename      |-> filename,
                             additions     |-> additions,
                             deletions     |-> deletions,
                             changed_lines |-> additions + deletions]),
        !.additions     = @ + additions,
        !.deletions     = @ + deletions,
        !.changed_lines = @ + (additions + deletions),
        !.file_count    = @ + 1]

\* line 68: the line opens a commit
is_header_line(line) == line # "" /\ Contains(line, "|") /\ ~Contains(line, "\t")

\* line 94: the line is a numstat line
is_stat_line(line) == line # "" /\ Contains(line, "\t")

-----------------------------------------------------------------------------
(* get_commit_data: the body of `for line in lines` *)

\* One iteration on `line`, from the heap h, the list cs and the reference cur.
\* raised = TRUE: the iteration left by the ValueError of line 85, which only
\* the handler of line 128 catches.
loop_body(line, h, cs, cur) ==
    IF is_header_line(line)
    THEN LET cs1   == IF cur # 0 THEN Append(cs, cur) ELSE cs
             parts == Split(line, "|", 3)
         IN  IF Len(parts) = 4
             THEN IF year_of(parts[3]).ok
                  THEN [raised |-> FALSE, heap |-> Append(h, new_commit(parts)),
                        commits |-> cs1, current_commit |-> Len(h) + 1]
                  ELSE [raised |-> TRUE, heap |-> h,
                        commits |-> cs1, current_commit |-> cur]
             ELSE [raised |-> FALSE, heap |-> h,
                   commits |-> cs1, current_commit |-> cur]
    ELSE IF is_stat_line(line) /\ cur # 0
    THEN LET parts == Split(Strip(line), "\t", -1)
         IN  IF Len(parts) = 3
             THEN LET n == stat_counts(parts[1], parts[2])
                  IN  [raised |-> FALSE,
                       heap |-> [h EXCEPT ![cur] =
                                    add_file(@, parts[3], n.additions, n.deletions)],
                       commits |-> cs, current_commit |-> cur]
             ELSE [raised |-> FALSE, heap |-> h,
                   commits |-> cs, current_commit |-> cur]
    ELSE [raised |-> FALSE, heap |-> h, commits |-> cs, current_commit |-> cur]

-----------------------------------------------------------------------------
(* What git log can print: the lines of the model *)

LineSet ==
    {"h1 | al|2024-01-05| fix crash",   \* a commit header
     "h2|bo|nodate|add docs",           \* a header whose date is no date
     "h3|cy|abc-def|m",                 \* a header whose date is no date, with '-'
     "x|y",                             \* a header of two fields
     "10\t2\tsrc/app.py",               \* a numstat line
     "-\t-\timg.png",                   \* the numstat line of a binary file
     "x\t5\tf",                         \* additions that are no number
     "-5\t3\tg",                        \* signed additions
     "7\tq",                            \* a numstat line of two fields
     "\t2\te",                          \* a numstat line whose first field is empty
     "junk",                            \* neither
     ""}                                \* a blank line

\* every text of at most MaxLines lines
GitOutputs ==
    {Join(raw, "\n") : raw \in UNION {[1..n -> LineSet] : n \in 0..MaxLines}}

-----------------------------------------------------------------------------
(* get_commit_data as a state machine *)

Init ==
    /\ pc = "start"
    /\ stdout = ""
    /\ lines = <<>>
    /\ i = 1
    /\ heap = <<>>
    /\ commits = <<>>
    /\ current_commit = 0
    /\ returned = "pending"
    /\ cpc = "idle"
    /\ message = Str("")
    /\ label = ""
    /\ tpc = "idle"
    /\ row = [commit_count |-> 1, active_days |-> 0]
    /\ tier = ""
    /\ script = "none"
    /\ calls = <<>>
    /\ stages = <<>>
    /\ written = <<>>
    /\ status = "running"
    /\ flask_exists = {}
    /\ kpc = "idle"
    /\ klines = <<>>
    /\ ki = 1
    /\ kcommits = <<>>
    /\ kreturned = "pending"
    /\ author_stats = <<>>
    /\ patterns_k = <<>>
    /\ bpc = "idle"
    /\ status_code = 0
    /\ issues = <<>>
    /\ bi = 1
    /\ data_list = <<>>
    /\ mpc = "idle"
    /\ fpc = "idle"
    /\ flines = <<>>
    /\ fi = 1
    /\ fcommits = <<>>
    /\ freturned = "pending"
    /\ spc = "idle"
    /\ returncodes = <<>>
    /\ rpc = "idle"
    /\ tags = <<>>
    /\ ri = 1
    /\ releases = <<>>
    /\ rreturned = "pending"
    /\ apc = "idle"
    /\ arg_commits = <<>>
    /\ type_stats = {}
    /\ file_stats = {}
    /\ sizes = {}
    /\ vpc = "idle"
    /\ tag_arg = ""
    /\ version_info = [major |-> {}, minor |-> {}, patch |-> {}, type |-> "unknown"]

\* lines 30-35: the repository directory is looked up
CheckRepo ==
    /\ pc = "start"
    /\ script = "none"
    /\ script' = "commit_type_analysis"
    /\ stages' = <<"get_commit_data">>
    /\ UNCHANGED <<calls, written, status>>
    /\ \E exists \in BOOLEAN :
          /\ flask_exists' = {exists}
          /\ IF exists
             THEN pc' = "git" /\ returned' = returned
             ELSE pc' = "done" /\ returned' = "None"
    /\ UNCHANGED <<stdout, lines, i, heap, commits, current_commit>>
    /\ UNCHANGED exceptParser

\* lines 40-65: git log runs; its exit code and output are looked at
RunGit ==
    /\ pc = "git"
    /\ calls' = invoke(calls, "git log")
    /\ UNCHANGED <<script, stages, written, status, flask_exists>>
    /\ \E returncode \in {0, 128}, out \in GitOutputs :
          LET ls == Split(Strip(out), "\n", -1)
          IN  /\ stdout' = out
              /\ IF returncode # 0
                 THEN /\ pc' = "done" /\ returned' = "None"
                      /\ lines' = lines
                 ELSE /\ lines' = ls
                      /\ IF Len(ls) = 0 \/ (Len(ls) = 1 /\ ls[1] = "")
                         THEN pc' = "done" /\ returned' = "None"
                         ELSE pc' = "loop" /\ returned' = returned
    /\ i' = 1
    /\ commits' = <<>>
    /\ current_commit' = 0
    /\ UNCHANGED heap
    /\ UNCHANGED exceptParser

\* lines 67-119: one iteration of the loop; lines 128-132 when it raises
ParseLine ==
    /\ pc = "loop"
    /\ UNCHANGED runVars
    /\ i <= Len(lines)
    /\ LET r == loop_body(lines[i], heap, commits, current_commit)
       IN  /\ heap' = r.heap
           /\ commits' = r.commits
           /\ current_commit' = r.current_commit
           /\ IF r.raised
              THEN pc' = "done" /\ returned' = "None" /\ i' = i
              ELSE pc' = "loop" /\ returned' = returned /\ i' = i + 1
    /\ UNCHANGED <<stdout, lines>>
    /\ UNCHANGED exceptParser

\* lines 121-126: the loop is over, the last commit is added, commits returned
Finish ==
    /\ pc = "loop"
    /\ UNCHANGED runVars
    /\ i > Len(lines)
    /\ commits' = IF current_commit # 0 THEN Append(commits, current_commit)
                                        ELSE commits
    /\ pc' = "done"
    /\ returned' = "commits"
    /\ UNCHANGED <<stdout, lines, i, heap, current_commit>>
    /\ UNCHANGED exceptParser

Next == CheckRepo \/ RunGit \/ ParseLine \/ Finish

Spec == Init /\ [][Next]_vars

-----------------------------------------------------------------------------
(* classify_commit_type called on its own *)

Words ==
    {"Add", "fix", "Refactor", "doc", "test", "style", "bump", "speed",
     "update", "version", "prefix", "latest", "fixes", "docs", "timeout", ""}

\* every subject of at most MaxWords words
Subjects ==
    {Join(ws, " ") : ws \in UNION {[1..n -> Words] : n \in 0..MaxWords}}

\* the subjects the specification names
ExampleSubjects ==
    {"Fix bug in request parsing",
     "Add new feature for sessions",
     "Update docs for routing",
     "Refactor internal cache logic",
     "Bump build tool to v2",
     "Improve performance of template rendering",
     "Add fix for timeout"}

\* subjects with a keyword inside a longer word, and in capitals
AnchorSubjects ==
    {"tests", "added", "PREFIX", "Latest build", "bugfixes", "Fix: docs"}

ClassifyInputs ==
    {Str(s) : s \in Subjects \cup ExampleSubjects \cup AnchorSubjects}
        \cup NonStrings

Classify ==
    /\ cpc = "idle"
    /\ \E m \in ClassifyInputs :
          /\ message' = m
          /\ label' = classify_commit_type(m)
    /\ cpc' = "returned"
    /\ UNCHANGED exceptClassify

NextClassify == Classify

SpecClassify == Init /\ [][NextClassify]_vars

-----------------------------------------------------------------------------
(* What the properties below speak of *)

\* the list get_commit_data returns, each reference replaced by its dict
Records == [k \in 1..Len(commits) |-> heap[commits[k]]]

\* the for loop was entered: git log succeeded and printed something
LoopEntered == Len(lines) > 0 /\ ~(Len(lines) = 1 /\ lines[1] = "")

Count(s, c) == Cardinality({k \in 1..Len(s) : Ch(s, k) = c})

\* a header line: it contains '|' and no tab
HeaderLine(line) == Count(line, "|") > 0 /\ Count(line, "\t") = 0

\* a header line of four fields: hash|author|date|subject, the subject being
\* the rest of the line
FourFieldHeader(line) == HeaderLine(line) /\ Count(line, "|") >= 3

HeaderField(line, n) == Split(line, "|", 3)[n]

\* a stat line of exactly three tab-separated fields
ThreeFieldStat(line) == Count(line, "\t") = 2

RECURSIVE HeaderPositions(_, _)
\* the indices k..Len(ls) of the four-field header lines of ls, in order
HeaderPositions(ls, k) ==
    IF k > Len(ls) THEN <<>>
    ELSE IF FourFieldHeader(ls[k]) THEN <<k>> \o HeaderPositions(ls, k + 1)
    ELSE HeaderPositions(ls, k + 1)

FourFieldHeaders == HeaderPositions(lines, 1)

RECURSIVE SumOf(_, _)
SumOf(files, field) ==
    IF files = <<>> THEN 0 ELSE files[1][field] + SumOf(Tail(files), field)

\* the loop and the final append run on the lines ls, as one value
RECURSIVE FoldLines(_, _, _)
FoldLines(ls, k, st) ==
    IF st.raised \/ k > Len(ls) THEN st
    ELSE FoldLines(ls, k + 1,
                   loop_body(ls[k], st.heap, st.commits, st.current_commit))

ParseLines(ls) ==
    LET st == FoldLines(ls, 1, [raised |-> FALSE, heap |-> <<>>,
                                commits |-> <<>>, current_commit |-> 0])
        cs == IF st.current_commit # 0 THEN Append(st.commits, st.current_commit)
                                       ELSE st.commits
    IN  IF st.raised THEN <<"None", <<>>>>
        ELSE <<"commits", [k \in 1..Len(cs) |-> st.heap[cs[k]]]>>

\* the line the loop read last, once it has read one
LastLine == lines[i - 1]

HasReadLine == LoopEntered /\ i > 1

-----------------------------------------------------------------------------
(* C1..C9: the parsing loop of get_commit_data *)

\* C1: when every header line of the input has four fields, the loop returns
\* exactly one record per header line, in input order, each carrying the
\* trimmed hash, author and subject of its own header.
C1_OneRecordPerHeader ==
    (/\ pc = "done"
     /\ LoopEntered
     /\ \A k \in 1..Len(lines) : HeaderLine(lines[k]) => FourFieldHeader(lines[k]))
    => /\ returned = "commits"
       /\ Len(Records) = Len(FourFieldHeaders)
       /\ \A k \in 1..Len(Records) :
              LET h == lines[FourFieldHeaders[k]]
              IN  /\ Records[k].hash = Strip(HeaderField(h, 1))
                  /\ Records[k].author = Strip(HeaderField(h, 2))
                  /\ Records[k].message = Strip(HeaderField(h, 4))

\* C2: a header line that has not four fields is skipped: the result is that
\* of parsing the input without such lines, no record is returned twice, and
\* there are as many records as four-field header lines.
C2_MalformedHeaderSkipped ==
    (pc = "done" /\ LoopEntered)
    => /\ <<returned, IF returned = "commits" THEN Records ELSE <<>>>>
              = ParseLines(SelectSeq(lines,
                    LAMBDA l : ~(HeaderLine(l) /\ ~FourFieldHeader(l))))
       /\ returned = "commits" =>
              /\ Len(commits) = Len(FourFieldHeaders)
              /\ \A j, k \in 1..Len(commits) : j # k => commits[j] # commits[k]

\* C3: at every point of the parse, each record's additions and deletions are
\* the sums of the additions and deletions of its file changes.
C3_SumsOverFiles ==
    \A k \in 1..Len(heap) :
        /\ heap[k].additions = SumOf(heap[k].files, "additions")
        /\ heap[k].deletions = SumOf(heap[k].files, "deletions")

\* C3 witness: a returned record with two file changes and non-zero sums
C3_Witness ==
    /\ pc = "done" /\ returned = "commits"
    /\ \E k \in 1..Len(Records) :
          /\ Len(Records[k].files) >= 2
          /\ Records[k].additions > 0
          /\ Records[k].deletions > 0

\* C4: no record and no file change ever has negative additions or deletions.
C4_NonNegative ==
    \A k \in 1..Len(heap) :
        /\ heap[k].additions >= 0
        /\ heap[k].deletions >= 0
        /\ \A f \in 1..Len(heap[k].files) :
               /\ heap[k].files[f].additions >= 0
               /\ heap[k].files[f].deletions >= 0

\* what one numeric field of a stat line contributes on its own: its value,
\* 0 for the placeholder, 0 when it is no integer
FieldValue(str) ==
    IF str = "-" THEN 0 ELSE IF PyInt(str).ok THEN PyInt(str).val ELSE 0

\* C5: the file change recorded for a three-field stat line carries, for each
\* of its two numeric fields independently, that field's own contribution.
C5_FieldsIndependent ==
    (/\ HasReadLine
     /\ current_commit # 0
     /\ is_stat_line(LastLine)
     /\ Len(Split(Strip(LastLine), "\t", -1)) = 3)
    => LET parts == Split(Strip(LastLine), "\t", -1)
           files == heap[current_commit].files
       IN  /\ Len(files) > 0
           /\ files[Len(files)].additions = FieldValue(parts[1])
           /\ files[Len(files)].deletions = FieldValue(parts[2])

\* the line is a stat line of three fields, as line.strip().split('\t') gives
\* them, whose two numeric fields are both '-'
PlaceholderLine(line) ==
    /\ Count(line, "\t") > 0
    /\ Len(Split(Strip(line), "\t", -1)) = 3
    /\ Split(Strip(line), "\t", -1)[1] = "-"
    /\ Split(Strip(line), "\t", -1)[2] = "-"

\* C6: reading a stat line whose counts are both '-' into a record appends one
\* file change with additions 0 and deletions 0, leaves the record's
\* additions, deletions and changed_lines as they were and adds one to its
\* file_count.
C6_PlaceholderCountsZero ==
    [][(/\ pc = "loop"
        /\ i <= Len(lines)
        /\ current_commit # 0
        /\ PlaceholderLine(lines[i]))
       => LET old == heap[current_commit]
              new == heap'[current_commit]
          IN  /\ current_commit' = current_commit
              /\ Len(new.files) = Len(old.files) + 1
              /\ SubSeq(new.files, 1, Len(old.files)) = old.files
              /\ new.files[Len(new.files)].additions = 0
              /\ new.files[Len(new.files)].deletions = 0
              /\ new.files[Len(new.files)].filename
                     = Split(Strip(lines[i]), "\t", -1)[3]
              /\ new.files[Len(new.files)].changed_lines = 0
              /\ new.additions = old.additions
              /\ new.deletions = old.deletions
              /\ new.changed_lines = old.changed_lines
              /\ new.file_count = old.file_count + 1]_vars

\* C6 witness: a placeholder line was just read into a record that already
\* had a file change with counts
C6_Witness ==
    /\ HasReadLine
    /\ pc = "loop"
    /\ PlaceholderLine(LastLine)
    /\ current_commit # 0
    /\ heap[current_commit].file_count = 2
    /\ heap[current_commit].additions > 0
    /\ heap[current_commit].changed_lines > 0

\* the date field of a four-field header is no calendar date
UnparseableDate(line) ==
    FourFieldHeader(line) /\ ~to_datetime(Strip(HeaderField(line, 3))).ok

\* C7: whatever unparseable date a four-field header carries, the parse goes
\* on to the end, get_commit_data returns the records, and the record of that
\* header is among them with a null date.
C7_UnparseableDateKept ==
    (pc = "done" /\ LoopEntered)
    => /\ returned = "commits"
       /\ \A k \in 1..Len(lines) :
              UnparseableDate(lines[k]) =>
                  \E r \in 1..Len(Records) :
                      /\ Records[r].hash = Strip(HeaderField(lines[k], 1))
                      /\ Records[r].date = NaT

\* C8: the record in progress when the input ends is the last element of the
\* result and occurs in it exactly once.
C8_LastRecordOnce ==
    (pc = "done" /\ returned = "commits" /\ current_commit # 0)
    => /\ Len(commits) > 0
       /\ commits[Len(commits)] = current_commit
       /\ Cardinality({k \in 1..Len(commits) : commits[k] = current_commit}) = 1

\* the file names of the three-field stat lines of lines[from..to]
RECURSIVE StatNames(_, _)
StatNames(from, to) ==
    IF from > to THEN <<>>
    ELSE IF ThreeFieldStat(lines[from])
         THEN <<Split(lines[from], "\t", -1)[3]>> \o StatNames(from + 1, to)
         ELSE StatNames(from + 1, to)

\* the last line of the block the k-th four-field header opens
BlockEnd(k) ==
    IF k < Len(FourFieldHeaders) THEN FourFieldHeaders[k + 1] - 1 ELSE Len(lines)

\* C9: the k-th record holds exactly the three-field stat lines between the
\* k-th four-field header and the next one, in order, whatever other lines
\* lie between; stat lines before the first header belong to no record; a
\* header with no stat line gives a record with no file and zero sums.
C9_StatLinesAttributed ==
    (pc = "done" /\ LoopEntered)
    => /\ returned = "commits"
       /\ Len(heap) = Len(FourFieldHeaders)
       /\ \A k \in 1..Len(heap) :
              LET names == StatNames(FourFieldHeaders[k] + 1, BlockEnd(k))
              IN  /\ \E r \in 1..Len(commits) : commits[r] = k
                  /\ Len(heap[k].files) = Len(names)
                  /\ \A f \in 1..Len(names) : heap[k].files[f].filename = names[f]
                  /\ names = <<>> =>
                         heap[k].additions = 0 /\ heap[k].deletions = 0

-----------------------------------------------------------------------------
(* C10: classify_commit_type *)

Taxonomy ==
    {"feature", "bugfix", "refactor", "documentation", "test", "style",
     "chore", "performance", "other"}

\* C10: classify_commit_type returns one label of the taxonomy for every
\* argument, raises for none, and returns 'other' for an argument that is no
\* string or is the empty string.
C10_TotalLabel ==
    cpc = "returned"
    => /\ label \in Taxonomy
       /\ (message.type # "str" \/ message.val = "") => label = "other"

\* C10 witness: an argument that is no string was classified
C10_Witness ==
    cpc = "returned" /\ message.type = "NoneType" /\ label = "other"

-----------------------------------------------------------------------------
(* classify_contributor of contributor_analysis, called on one author row *)

\* the if chain with `or` in place of `and` in its first test
classify_contributor_or(r) ==
    IF r.commit_count >= 100 \/ r.active_days >= 365 THEN "Core Contributor"
    ELSE IF r.commit_count >= 50 THEN "Active Contributor"
    ELSE IF r.commit_count >= 10 THEN "Regular Contributor"
    ELSE IF r.commit_count >= 2 THEN "Occasional Contributor"
    ELSE "One-time Contributor"

\* lines 90-104
classify_contributor(r) ==
    IF r.commit_count >= 100 /\ r.active_days >= 365 THEN "Core Contributor"
    ELSE IF r.commit_count >= 50 THEN "Active Contributor"
    ELSE IF r.commit_count >= 10 THEN "Regular Contributor"
    ELSE IF r.commit_count >= 2 THEN "Occasional Contributor"
    ELSE "One-time Contributor"

\* the rows classify_contributor is called on
TierInputs ==
    [commit_count : 1..MaxCommitCount, active_days : 0..MaxActiveDays]

\* classify_contributor(row) is called and returns
ClassifyRow ==
    /\ tpc = "idle"
    /\ \E r \in TierInputs :
          /\ row' = r
          /\ tier' = classify_contributor(r)
    /\ tpc' = "returned"
    /\ UNCHANGED exceptTier

NextTier == ClassifyRow

SpecTier == Init /\ [][NextTier]_vars

-----------------------------------------------------------------------------
(* contributor_analysis: get_contributor_data, analyze_contributor_stats,
   analyze_contribution_patterns and the output stages of main.  The float
   columns monthly_avg, commit_percentage and cumulative_percentage and the
   float entries of patterns are left out: no file name, no stage and no
   integer column depends on them. *)

\* the body of the for loop of get_contributor_data on one line;
\* raised stands for the ValueError of int() or the IndexError of [1]
contrib_loop_body(line, cs) ==
    LET parts == Split(line, "|", -1)
        dp    == Split(parts[2], "-", -1)
        y     == PyInt(dp[1])
        m     == IF Len(dp) > 1 THEN PyInt(dp[2]) ELSE [ok |-> FALSE, val |-> 0]
        d     == IF Len(dp) > 2 THEN PyInt(dp[3]) ELSE [ok |-> TRUE, val |-> 1]
    IN  IF line = "" \/ Len(parts) # 2
        THEN [raised |-> FALSE, commits |-> cs]
        ELSE IF ~y.ok \/ ~m.ok \/ ~d.ok
        THEN [raised |-> TRUE, commits |-> cs]
        ELSE [raised |-> FALSE,
              commits |-> Append(cs, [author |-> Strip(parts[1]),
                                      date   |-> parts[2],
                                      year   |-> y.val,
                                      month  |-> m.val,
                                      day    |-> d.val])]

\* the number of days from 1970-01-01 to the day y-m-d of the proleptic
\* Gregorian calendar, which is what a difference of Timestamps counts
civil_days(y, m, d) ==
    LET yy  == IF m <= 2 THEN y - 1 ELSE y
        era == yy \div 400
        yoe == yy - era * 400
        mp  == IF m > 2 THEN m - 3 ELSE m + 9
        doy == (153 * mp + 2) \div 5 + d - 1
        doe == yoe * 365 + yoe \div 4 - yoe \div 100 + doy
    IN  era * 146097 + doe - 719468

\* the Timestamp pd.to_datetime makes of a date string, as a day number
day_number(date) ==
    civil_days(PyInt(SubSeq(date, 1, 4)).val,
               PyInt(SubSeq(date, 6, 7)).val,
               PyInt(SubSeq(date, 9, 10)).val)

\* df['date'] = pd.to_datetime(df['date']) raises on a string it cannot parse
dates_parse(cs) ==
    \A n \in 1..Len(cs) :
        to_datetime(cs[n].date).ok /\ to_datetime(cs[n].date).val # NaT

\* the group of one author with min and max taken the wrong way round
author_row_swapped(cs, a) ==
    LET mine  == {n \in 1..Len(cs) : cs[n].author = a}
        days  == {day_number(cs[n].date) : n \in mine}
        first == SetMax(days)
        last  == SetMin(days)
        span  == last - first
    IN  [author        |-> a,
         first_commit  |-> first,
         last_commit   |-> last,
         commit_count  |-> Cardinality(mine),
         active_years  |-> Cardinality({cs[n].year : n \in mine}),
         active_days   |-> IF span > 0 THEN span ELSE 0]

\* lines 63-74: the group of one author: min, max and count of date, nunique
\* of year, and active_days = max(0, (last_commit - first_commit).days)
author_row(cs, a) ==
    LET mine  == {n \in 1..Len(cs) : cs[n].author = a}
        days  == {day_number(cs[n].date) : n \in mine}
        first == SetMin(days)
        last  == SetMax(days)
        span  == last - first
    IN  [author        |-> a,
         first_commit  |-> first,
         last_commit   |-> last,
         commit_count  |-> Cardinality(mine),
         active_years  |-> Cardinality({cs[n].year : n \in mine}),
         active_days   |-> IF span > 0 THEN span ELSE 0]

\* line 87: the column contributor_type
typed_row(r) ==
    [author           |-> r.author,
     first_commit     |-> r.first_commit,
     last_commit      |-> r.last_commit,
     commit_count     |-> r.commit_count,
     active_years     |-> r.active_years,
     active_days      |-> r.active_days,
     contributor_type |-> classify_contributor(r)]

\* analyze_contributor_stats: the frames it can return.  sort_values sorts
\* by commit_count, descending, and leaves the order of equal counts open.
analyze_contributor_stats(cs) ==
    LET authors == {cs[n].author : n \in 1..Len(cs)}
        rows    == {typed_row(author_row(cs, a)) : a \in authors}
        N       == Cardinality(authors)
    IN  {f \in [1..N -> rows] :
            /\ \A a, b \in 1..N : a # b => f[a] # f[b]
            /\ \A a, b \in 1..N : a < b => f[a].commit_count >= f[b].commit_count}

\* lines 131-144: the years that get a retention rate
retention_years(cs, current_year) ==
    {y \in SetMin({cs[n].year : n \in 1..Len(cs)})..current_year :
        /\ \E n \in 1..Len(cs) : cs[n].year = y
        /\ y + 1 <= current_year}

\* the loop of lines 152-156 without all_authors.update(new_authors)
analyze_contribution_patterns_no_update(cs, current_year) ==
    LET years      == {cs[n].year : n \in 1..Len(cs)}
        in_year(y) == {cs[n].author : n \in {k \in 1..Len(cs) : cs[k].year = y}}
    IN  [yearly_new_authors    |-> [y \in years |-> Cardinality(in_year(y))],
         total_unique_authors  |-> 0,
         yearly_active_authors |-> [y \in years |-> Cardinality(in_year(y))],
         retention_rates       |-> retention_years(cs, current_year)]

\* lines 148-167: yearly_new_authors, total_unique_authors and
\* yearly_active_authors
analyze_contribution_patterns(cs, current_year) ==
    LET years      == {cs[n].year : n \in 1..Len(cs)}
        in_year(y) == {cs[n].author : n \in {k \in 1..Len(cs) : cs[k].year = y}}
        before(y)  == UNION {in_year(z) : z \in {w \in years : w < y}}
    IN  [yearly_new_authors    |-> [y \in years |-> Cardinality(in_year(y) \ before(y))],
         total_unique_authors  |-> Cardinality(UNION {in_year(y) \ before(y) : y \in years}),
         yearly_active_authors |-> [y \in years |-> Cardinality(in_year(y))],
         retention_rates       |-> retention_years(cs, current_year)]

\* the lines git log --pretty=format:%an|%ad --date=short prints in this model
ContribLineSet ==
    {"al|2024-01-05", " al |2024-03-01", "bo|2023-12-31", "bo|2025-01-01",
     "a|b|2024-01-05", "junk", "cy|", "cy|2024", ""}

ContribOutputs ==
    {Join(raw, "\n") : raw \in UNION {[1..n -> ContribLineSet] : n \in 0..MaxLines}}

\* datetime.now().year
CurrentYears == {2024, 2026}

\* main calls get_contributor_data; lines 28-36: git log runs once
ContribRunGit ==
    /\ script = "none"
    /\ pc = "start"
    /\ script' = "contributor_analysis"
    /\ stages' = <<"get_contributor_data">>
    /\ calls' = invoke(calls, "git log")
    /\ \E returncode \in {0, 128}, out \in ContribOutputs :
          IF returncode # 0
          THEN kpc' = "check" /\ kreturned' = "None" /\ klines' = klines
          ELSE /\ kpc' = "loop" /\ kreturned' = kreturned
               /\ klines' = Split(Strip(out), "\n", -1)
    /\ UNCHANGED <<written, status, ki, kcommits, author_stats, patterns_k, flask_exists>>
    /\ UNCHANGED exceptContrib

\* lines 39-50: one iteration of the loop; an exception leaves main
ContribParseLine ==
    /\ kpc = "loop"
    /\ ki <= Len(klines)
    /\ LET r == contrib_loop_body(klines[ki], kcommits)
       IN  /\ kcommits' = r.commits
           /\ IF r.raised
              THEN kpc' = "end" /\ status' = "raised" /\ ki' = ki
              ELSE kpc' = "loop" /\ status' = status /\ ki' = ki + 1
    /\ UNCHANGED <<script, calls, stages, written, flask_exists>>
    /\ UNCHANGED <<klines, kreturned, author_stats, patterns_k>>
    /\ UNCHANGED exceptContrib

\* lines 52-53: the loop is over and commits is returned
ContribReturn ==
    /\ kpc = "loop"
    /\ ki > Len(klines)
    /\ kreturned' = "commits"
    /\ kpc' = "check"
    /\ UNCHANGED runVars
    /\ UNCHANGED <<klines, ki, kcommits, author_stats, patterns_k>>
    /\ UNCHANGED exceptContrib

\* lines 621-622: if not commits: return
ContribCheck ==
    /\ kpc = "check"
    /\ IF kreturned = "None" \/ kcommits = <<>>
       THEN kpc' = "end" /\ status' = "returned"
       ELSE kpc' = "stats" /\ status' = status
    /\ UNCHANGED <<script, calls, stages, written, flask_exists>>
    /\ UNCHANGED <<klines, ki, kcommits, kreturned, author_stats, patterns_k>>
    /\ UNCHANGED exceptContrib

\* line 625: analyze_contributor_stats(commits)
ContribStats ==
    /\ kpc = "stats"
    /\ stages' = Append(stages, "analyze_contributor_stats")
    /\ IF dates_parse(kcommits)
       THEN /\ author_stats' \in analyze_contributor_stats(kcommits)
            /\ kpc' = "patterns" /\ status' = status
       ELSE /\ author_stats' = author_stats
            /\ kpc' = "end" /\ status' = "raised"
    /\ UNCHANGED <<script, calls, written, flask_exists>>
    /\ UNCHANGED <<klines, ki, kcommits, kreturned, patterns_k>>
    /\ UNCHANGED exceptContrib

\* line 628: analyze_contribution_patterns(author_stats, df)
ContribPatterns ==
    /\ kpc = "patterns"
    /\ stages' = Append(stages, "analyze_contribution_patterns")
    /\ \E current_year \in CurrentYears :
          patterns_k' = <<analyze_contribution_patterns(kcommits, current_year)>>
    /\ kpc' = "save"
    /\ UNCHANGED <<script, calls, written, status, flask_exists>>
    /\ UNCHANGED <<klines, ki, kcommits, kreturned, author_stats>>
    /\ UNCHANGED exceptContrib

\* line 633: save_analysis_results writes its CSV files
ContribSave ==
    /\ kpc = "save"
    /\ stages' = Append(stages, "save_analysis_results")
    /\ written' = written \o
          <<"contributor_stats.csv", "top_100_contributors.csv",
            "contribution_patterns.csv", "yearly_new_contributors.csv",
            "yearly_active_contributors.csv">>
          \o (IF patterns_k[1].retention_rates # {}
              THEN <<"retention_rates.csv">> ELSE <<>>)
    /\ kpc' = "figures"
    /\ UNCHANGED <<script, calls, status, flask_exists>>
    /\ UNCHANGED <<klines, ki, kcommits, kreturned, author_stats, patterns_k>>
    /\ UNCHANGED exceptContrib

\* line 637: create_visualizations saves its figures
ContribFigures ==
    /\ kpc = "figures"
    /\ stages' = Append(stages, "create_visualizations")
    /\ written' = written \o
          <<"top_20_contributors.png", "contributor_type_distribution.png",
            "contribution_concentration.png", "yearly_new_contributors.png",
            "contributor_activity_duration.png",
            "yearly_active_contributors.png">>
    /\ kpc' = "report"
    /\ UNCHANGED <<script, calls, status, flask_exists>>
    /\ UNCHANGED <<klines, ki, kcommits, kreturned, author_stats, patterns_k>>
    /\ UNCHANGED exceptContrib

\* lines 641-657: generate_report writes the report, and main returns
ContribReport ==
    /\ kpc = "report"
    /\ stages' = Append(stages, "generate_report")
    /\ written' = Append(written, "contributor_analysis_report.md")
    /\ kpc' = "end"
    /\ status' = "returned"
    /\ UNCHANGED <<script, calls, flask_exists>>
    /\ UNCHANGED <<klines, ki, kcommits, kreturned, author_stats, patterns_k>>
    /\ UNCHANGED exceptContrib

NextContrib ==
    \/ ContribRunGit \/ ContribParseLine \/ ContribReturn \/ ContribCheck
    \/ ContribStats \/ ContribPatterns \/ ContribSave \/ ContribFigures
    \/ ContribReport

SpecContrib == Init /\ [][NextContrib]_vars

-----------------------------------------------------------------------------
(* analyze_bugs: fetch_bugs and analyze_and_save *)

\* the datetime of six fields in their ranges, as seconds since
\* 1970-01-01T00:00:00; [ok |-> FALSE] stands for the ValueError
datetime_of(y, mo, d, h, mi, sec) ==
    IF mo \in 1..12 /\ d \in 1..31 /\ h \in 0..23 /\ mi \in 0..59 /\ sec \in 0..61
    THEN [ok  |-> TRUE,
          val |-> civil_days(y, mo, d) * 86400 + h * 3600 + mi * 60 + sec]
    ELSE [ok |-> FALSE, val |-> 0]

\* datetime.strptime(s, "%Y-%m-%dT%H:%M:%SZ") for the zero-padded form;
\* [ok |-> FALSE] stands for the ValueError (TypeError for a null)
strptime(s) ==
    IF /\ Len(s) = 20
       /\ Ch(s, 5) = "-" /\ Ch(s, 8) = "-" /\ Ch(s, 11) = "T"
       /\ Ch(s, 14) = ":" /\ Ch(s, 17) = ":" /\ Ch(s, 20) = "Z"
       /\ \A k \in (1..19) \ {5, 8, 11, 14, 17} : IsDigit(Ch(s, k))
    THEN datetime_of(PyInt(SubSeq(s, 1, 4)).val, PyInt(SubSeq(s, 6, 7)).val,
                     PyInt(SubSeq(s, 9, 10)).val, PyInt(SubSeq(s, 12, 13)).val,
                     PyInt(SubSeq(s, 15, 16)).val, PyInt(SubSeq(s, 18, 19)).val)
    ELSE [ok |-> FALSE, val |-> 0]

\* lines 50-60: the rest of the body, given the two parsed timestamps;
\* duration_hours is the fraction total_seconds / 3600
bug_record(issue, dl, created_at, closed_at) ==
    IF ~created_at.ok \/ ~closed_at.ok
    THEN [raised |-> TRUE, data_list |-> dl]
    ELSE [raised |-> FALSE,
          data_list |-> Append(dl,
              [id             |-> issue["number"],
               title          |-> issue["title"],
               created_at     |-> created_at.val,
               closed_at      |-> closed_at.val,
               duration_hours |-> [num |-> closed_at.val - created_at.val,
                                   den |-> 3600]])]

\* the body of the loop without the test for "pull_request"
bug_loop_body_all(issue, dl) ==
    bug_record(issue, dl, strptime(issue["created_at"]),
               strptime(issue["closed_at"]))

\* lines 46-60: the body of the loop of analyze_and_save on one issue
bug_loop_body(issue, dl) ==
    IF "pull_request" \in DOMAIN issue
    THEN [raised |-> FALSE, data_list |-> dl]
    ELSE bug_record(issue, dl, strptime(issue["created_at"]),
                    strptime(issue["closed_at"]))

\* fetch_bugs with the status left unread
fetch_result_any_status(code, body) == body

\* lines 33-37: what fetch_bugs returns for a response
fetch_result(code, body) == IF code # 200 THEN <<>> ELSE body

\* the objects of a response: closed issues, which carry both timestamps, and
\* pull requests, flagged by the key pull_request whatever its value
IssueSet ==
    {[number |-> 1, title |-> "crash", created_at |-> "2024-01-01T00:00:00Z",
      closed_at |-> "2024-01-02T12:00:00Z"],
     [number |-> 2, title |-> "leak", created_at |-> "2024-02-28T23:00:00Z",
      closed_at |-> "2024-03-01T01:00:00Z"],
     [number |-> 3, title |-> "patch", created_at |-> "2024-01-01T00:00:00Z",
      closed_at |-> "2024-01-01T00:00:01Z", pull_request |-> "url"],
     [number |-> 4, title |-> "draft", created_at |-> "2024-01-01T00:00:00Z",
      closed_at |-> "", pull_request |-> ""]}

IssueLists == UNION {[1..n -> IssueSet] : n \in 0..MaxIssues}

\* the outcomes of requests.get: a status code, or 0 for an exception
StatusCodes == {200, 403, 0}

\* line 82, lines 26-37: fetch_bugs sends one GET for page 1 and returns
FetchBugs ==
    /\ script = "none"
    /\ pc = "start"
    /\ script' = "analyze_bugs"
    /\ stages' = <<"fetch_bugs">>
    /\ calls' = invoke(calls, "GET issues page=1")
    /\ \E code \in StatusCodes, body \in IssueLists :
          /\ status_code' = code
          /\ IF code = 0
             THEN bpc' = "end" /\ status' = "raised" /\ issues' = issues
             ELSE /\ bpc' = "check" /\ status' = status
                  /\ issues' = fetch_result(code, body)
    /\ UNCHANGED <<written, bi, data_list, flask_exists>>
    /\ UNCHANGED exceptBugs

\* line 83, lines 40-44: analyze_and_save is called; if not issues: return
BugCheck ==
    /\ bpc = "check"
    /\ stages' = Append(stages, "analyze_and_save")
    /\ IF issues = <<>>
       THEN bpc' = "end" /\ status' = "returned"
       ELSE bpc' = "loop" /\ status' = status
    /\ UNCHANGED <<script, calls, written, flask_exists>>
    /\ UNCHANGED <<status_code, issues, bi, data_list>>
    /\ UNCHANGED exceptBugs

\* lines 46-60: one iteration of the loop
BugLoop ==
    /\ bpc = "loop"
    /\ bi <= Len(issues)
    /\ LET r == bug_loop_body(issues[bi], data_list)
       IN  /\ data_list' = r.data_list
           /\ IF r.raised
              THEN bpc' = "end" /\ status' = "raised" /\ bi' = bi
              ELSE bpc' = "loop" /\ status' = status /\ bi' = bi + 1
    /\ UNCHANGED <<script, calls, stages, written, flask_exists>>
    /\ UNCHANGED <<status_code, issues>>
    /\ UNCHANGED exceptBugs

\* lines 62-67: the frame is written to the CSV file; the mean of the column
\* duration_hours raises KeyError on a frame built from no record
BugCsv ==
    /\ bpc = "loop"
    /\ bi > Len(issues)
    /\ written' = Append(written, "flask_bugs.csv")
    /\ IF data_list = <<>>
       THEN bpc' = "end" /\ status' = "raised"
       ELSE bpc' = "figure" /\ status' = status
    /\ UNCHANGED <<script, calls, stages, flask_exists>>
    /\ UNCHANGED <<status_code, issues, bi, data_list>>
    /\ UNCHANGED exceptBugs

\* lines 69-79: the figure is saved and the script ends
BugFigure ==
    /\ bpc = "figure"
    /\ written' = Append(written, "bug_fix_duration.png")
    /\ bpc' = "end"
    /\ status' = "returned"
    /\ UNCHANGED <<script, calls, stages, flask_exists>>
    /\ UNCHANGED <<status_code, issues, bi, data_list>>
    /\ UNCHANGED exceptBugs

NextBugs == FetchBugs \/ BugCheck \/ BugLoop \/ BugCsv \/ BugFigure

SpecBugs == Init /\ [][NextBugs]_vars

-----------------------------------------------------------------------------
(* analyze_commits of commit_type_analysis.  A float is kept as the exact
   fraction num/den it rounds; net_lines and the printed totals are left out:
   nothing that is returned depends on them. *)

\* Series.sum() of the column col over the rows whose index is in idx
RECURSIVE column_sum(_, _, _)
column_sum(rows, idx, col) ==
    IF idx = {} THEN 0
    ELSE LET n == CHOOSE k \in idx : TRUE
         IN  rows[n][col] + column_sum(rows, idx \ {n}, col)

\* the entry of one commit type with the additions summed in place of the
\* changed lines
type_entry_additions(rows, type_data) ==
    [count               |-> Cardinality(type_data),
     percentage          |-> [num |-> Cardinality(type_data) * 100, den |-> Len(rows)],
     total_changed_lines |-> column_sum(rows, type_data, "additions"),
     avg_changed_lines   |-> [num |-> column_sum(rows, type_data, "additions"),
                              den |-> Cardinality(type_data)]]

\* lines 191-197: the entry of one commit type; type_data holds the indices
\* of df[df['commit_type'] == commit_type]
type_entry(rows, type_data) ==
    [count               |-> Cardinality(type_data),
     percentage          |-> [num |-> Cardinality(type_data) * 100, den |-> Len(rows)],
     total_changed_lines |-> column_sum(rows, type_data, "changed_lines"),
     avg_changed_lines   |-> [num |-> column_sum(rows, type_data, "changed_lines"),
                              den |-> Cardinality(type_data)]]

\* lines 187-197: the dict type_stats, keyed by the values of value_counts()
type_stats_of(rows) ==
    [t \in {rows[n].commit_type : n \in 1..Len(rows)} |->
        type_entry(rows, {n \in 1..Len(rows) : rows[n].commit_type = t})]

\* lines 213-214: the pairs <<n, f>> the two nested loops visit: file change
\* f of commit n
file_infos(rows) ==
    {p \in (1..Len(rows)) \X (1..SetMax({Len(rows[n].files) : n \in 1..Len(rows)})) :
        p[2] <= Len(rows[p[1]].files)}

\* the sum of changed_lines over the file changes of the set infos
RECURSIVE changed_sum(_, _)
changed_sum(rows, infos) ==
    IF infos = {} THEN 0
    ELSE LET p == CHOOSE q \in infos : TRUE
         IN  rows[p[1]].files[p[2]].changed_lines + changed_sum(rows, infos \ {p})

\* lines 215-228: the row of one filename: one count and one sum per file
\* change of that name, and the set of the authors of their commits
file_row(rows, filename) ==
    LET infos == {p \in file_infos(rows) : rows[p[1]].files[p[2]].filename = filename}
    IN  [filename            |-> filename,
         commit_count        |-> Cardinality(infos),
         total_changed_lines |-> changed_sum(rows, infos),
         author_count        |-> Cardinality({rows[p[1]].author : p \in infos})]

\* lines 221-231: the frames file_stats can be: one row per key of
\* file_stats_dict; sort_values sorts by commit_count, descending, and leaves
\* the order of equal counts open
file_stats_of(rows) ==
    LET names == {rows[p[1]].files[p[2]].filename : p \in file_infos(rows)}
        frows == {file_row(rows, name) : name \in names}
        N     == Cardinality(names)
    IN  {f \in [1..N -> frows] :
            /\ \A a, b \in 1..N : a # b => f[a] # f[b]
            /\ \A a, b \in 1..N : a < b => f[a].commit_count >= f[b].commit_count}

\* the three counts with 10 counted as medium too
change_sizes_overlap(rows) ==
    [small  |-> Cardinality({n \in 1..Len(rows) : rows[n].changed_lines <= 10}),
     medium |-> Cardinality({n \in 1..Len(rows) :
                    rows[n].changed_lines >= 10 /\ rows[n].changed_lines <= 100}),
     large  |-> Cardinality({n \in 1..Len(rows) : rows[n].changed_lines > 100})]

\* lines 243-245: small, medium and large
change_sizes(rows) ==
    [small  |-> Cardinality({n \in 1..Len(rows) : rows[n].changed_lines <= 10}),
     medium |-> Cardinality({n \in 1..Len(rows) :
                    rows[n].changed_lines > 10 /\ rows[n].changed_lines <= 100}),
     large  |-> Cardinality({n \in 1..Len(rows) : rows[n].changed_lines > 100})]

\* analyze_commits(commits): what a call can end in.  An empty list returns
\* (None, None, None) at line 167; a list without any file change raises the
\* KeyError of sort_values at line 231, on a frame that has no column, after
\* type_stats was built.
analyze_commits(rows) ==
    IF rows = <<>>
    THEN {[raised |-> FALSE, type_stats |-> {}, file_stats |-> {}, sizes |-> {}]}
    ELSE IF file_infos(rows) = {}
    THEN {[raised |-> TRUE, type_stats |-> {type_stats_of(rows)},
           file_stats |-> {}, sizes |-> {}]}
    ELSE {[raised |-> FALSE, type_stats |-> {type_stats_of(rows)},
           file_stats |-> {fs}, sizes |-> {change_sizes(rows)}] :
             fs \in file_stats_of(rows)}

\* the list get_commit_data returns for the lines ls, as dicts: the loop and
\* the final append
RECURSIVE run_loop(_, _, _)
run_loop(ls, k, st) ==
    IF st.raised \/ k > Len(ls) THEN st
    ELSE CHOOSE end \in
             {run_loop(ls, k + 1, next) :
                 next \in {loop_body(ls[k], st.heap, st.commits, st.current_commit)}} :
             TRUE

\* lines 67-126 on the lines ls; <<>> stands for the None of line 132 too
parsed_commits(ls) ==
    LET st == run_loop(ls, 1, [raised |-> FALSE, heap |-> <<>>,
                               commits |-> <<>>, current_commit |-> 0])
        cs == IF st.current_commit # 0 THEN Append(st.commits, st.current_commit)
                                       ELSE st.commits
    IN  IF st.raised THEN <<>> ELSE [k \in 1..Len(cs) |-> st.heap[cs[k]]]

\* the lines of the logs analyze_commits is called on in this model
AnalyzeLineSet ==
    {"h1|al|2024-01-05|fix crash",      \* a bugfix of al
     "h2|bo|2024-02-01|add docs",       \* a feature of bo
     "x|y",                             \* a header of two fields
     "10\t2\tsrc/app.py",               \* 12 changed lines
     "120\t30\tsrc/app.py",             \* 150 changed lines
     "7\t3\tdocs/x.rst",                \* 10 changed lines
     "-5\t3\tg"}                        \* signed additions

AnalyzeOutputs ==
    {Join(raw, "\n") : raw \in UNION {[1..n -> AnalyzeLineSet] : n \in 0..MaxLog}}

\* analyze_commits called on what get_commit_data returned for some log
AnalyzeCommits ==
    /\ apc = "idle"
    /\ \E out \in AnalyzeOutputs :
          \E rows \in {parsed_commits(Split(Strip(out), "\n", -1))} :
              /\ arg_commits' = rows
              /\ \E r \in analyze_commits(rows) :
                    /\ type_stats' = r.type_stats
                    /\ file_stats' = r.file_stats
                    /\ sizes' = r.sizes
                    /\ apc' = IF r.raised THEN "raised" ELSE "returned"
    /\ UNCHANGED exceptAnalyze

NextAnalyze == AnalyzeCommits

SpecAnalyze == Init /\ [][NextAnalyze]_vars

-----------------------------------------------------------------------------
(* main of commit_type_analysis after get_commit_data has returned *)

\* lines 207-231: file_stats is built from the file changes of all commits;
\* sort_values('commit_count') raises KeyError on a frame built from none
has_file_changes ==
    \E n \in 1..Len(commits) : heap[commits[n]].files # <<>>

\* lines 462-465: if not commits: return
TypeCheck ==
    /\ script = "commit_type_analysis"
    /\ pc = "done"
    /\ mpc = "idle"
    /\ IF returned = "None" \/ commits = <<>>
       THEN mpc' = "end" /\ status' = "returned"
       ELSE mpc' = "analyze" /\ status' = status
    /\ UNCHANGED <<script, calls, stages, written, flask_exists>>
    /\ UNCHANGED analyzeVars
    /\ UNCHANGED exceptTypeMain

\* line 468: analyze_commits(commits)
TypeAnalyze ==
    /\ mpc = "analyze"
    /\ stages' = Append(stages, "analyze_commits")
    /\ arg_commits' = Records
    /\ \E r \in analyze_commits(Records) :
          /\ type_stats' = r.type_stats
          /\ file_stats' = r.file_stats
          /\ sizes' = r.sizes
    /\ IF has_file_changes
       THEN mpc' = "figures" /\ status' = status
       ELSE mpc' = "end" /\ status' = "raised"
    /\ UNCHANGED <<script, calls, written, flask_exists>>
    /\ UNCHANGED apc
    /\ UNCHANGED exceptTypeMain

\* line 471: create_visualizations saves its three figures
TypeFigures ==
    /\ mpc = "figures"
    /\ stages' = Append(stages, "create_visualizations")
    /\ written' = written \o
          <<"commit_type_distribution.png", "change_size_distribution.png",
            "top_files_changes.png">>
    /\ mpc' = "save"
    /\ UNCHANGED <<script, calls, status, flask_exists>>
    /\ UNCHANGED analyzeVars
    /\ UNCHANGED exceptTypeMain

\* line 474: save_data writes its two CSV files
TypeSave ==
    /\ mpc = "save"
    /\ stages' = Append(stages, "save_data")
    /\ written' = written \o <<"commits_summary.csv", "file_statistics.csv">>
    /\ mpc' = "report"
    /\ UNCHANGED <<script, calls, status, flask_exists>>
    /\ UNCHANGED analyzeVars
    /\ UNCHANGED exceptTypeMain

\* lines 477-485: generate_report writes the report, and main returns
TypeReport ==
    /\ mpc = "report"
    /\ stages' = Append(stages, "generate_report")
    /\ written' = Append(written, "commit_analysis_report.md")
    /\ mpc' = "end"
    /\ status' = "returned"
    /\ UNCHANGED <<script, calls, flask_exists>>
    /\ UNCHANGED analyzeVars
    /\ UNCHANGED exceptTypeMain

NextTypeMain ==
    \/ Next
    \/ TypeCheck \/ TypeAnalyze \/ TypeFigures \/ TypeSave \/ TypeReport

-----------------------------------------------------------------------------
(* commit_frequency_analysis *)

\* the body of the for loop of get_commit_data on one line;
\* raised stands for the ValueError of int() or the IndexError of [1]
freq_loop_body(line, cs) ==
    LET parts == Split(line, "|", -1)
        dp    == Split(parts[1], "-", -1)
        y     == PyInt(dp[1])
        m     == IF Len(dp) > 1 THEN PyInt(dp[2]) ELSE [ok |-> FALSE, val |-> 0]
        d     == IF Len(dp) > 2 THEN PyInt(dp[3]) ELSE [ok |-> TRUE, val |-> 1]
    IN  IF line = "" \/ Len(parts) # 2
        THEN [raised |-> FALSE, commits |-> cs]
        ELSE IF ~y.ok \/ ~m.ok \/ ~d.ok
        THEN [raised |-> TRUE, commits |-> cs]
        ELSE [raised |-> FALSE,
              commits |-> Append(cs, [date   |-> parts[1],
                                      author |-> parts[2],
                                      year   |-> y.val,
                                      month  |-> m.val,
                                      day    |-> d.val])]

\* line 125: stats['monthly'].loc[range(1, 13)] raises KeyError unless every
\* month of the calendar has a commit
all_months_present(cs) ==
    \A mo \in 1..12 : \E n \in 1..Len(cs) : cs[n].month = mo

\* the lines git log --pretty=format:%ad|%an --date=short prints in this model
FreqLineSet ==
    {"2024-01-05|al", "2024-03-01|bo", "2023-12-31|al", "2024-01-05|a|b",
     "junk", "|cy", "2024|cy", ""}

\* a log with a commit in every month of the calendar
FullYearOutput ==
    Join(<<"2024-12-15|al", "2024-11-15|al", "2024-10-15|al", "2024-09-15|al",
           "2024-08-15|al", "2024-07-15|al", "2024-06-15|al", "2024-05-15|al",
           "2024-04-15|al", "2024-03-15|al", "2024-02-15|al", "2024-01-15|bo">>,
         "\n")

FreqOutputs ==
    {Join(raw, "\n") : raw \in UNION {[1..n -> FreqLineSet] : n \in 0..MaxLines}}
        \cup {FullYearOutput}

\* main calls get_commit_data; lines 26-34: git log runs once
FreqRunGit ==
    /\ script = "none"
    /\ pc = "start"
    /\ script' = "commit_frequency_analysis"
    /\ stages' = <<"get_commit_data">>
    /\ calls' = invoke(calls, "git log")
    /\ \E returncode \in {0, 128}, out \in FreqOutputs :
          IF returncode # 0
          THEN fpc' = "check" /\ freturned' = "None" /\ flines' = flines
          ELSE /\ fpc' = "loop" /\ freturned' = freturned
               /\ flines' = Split(Strip(out), "\n", -1)
    /\ UNCHANGED <<written, status, fi, fcommits, flask_exists>>
    /\ UNCHANGED exceptFreq

\* lines 37-48: one iteration of the loop; an exception leaves main
FreqParseLine ==
    /\ fpc = "loop"
    /\ fi <= Len(flines)
    /\ LET r == freq_loop_body(flines[fi], fcommits)
       IN  /\ fcommits' = r.commits
           /\ IF r.raised
              THEN fpc' = "end" /\ status' = "raised" /\ fi' = fi
              ELSE fpc' = "loop" /\ status' = status /\ fi' = fi + 1
    /\ UNCHANGED <<script, calls, stages, written, flask_exists>>
    /\ UNCHANGED <<flines, freturned>>
    /\ UNCHANGED exceptFreq

\* lines 50-51: the loop is over and commits is returned
FreqReturn ==
    /\ fpc = "loop"
    /\ fi > Len(flines)
    /\ freturned' = "commits"
    /\ fpc' = "check"
    /\ UNCHANGED runVars
    /\ UNCHANGED <<flines, fi, fcommits>>
    /\ UNCHANGED exceptFreq

\* main without `if not commits: return`
FreqCheck_no_return ==
    /\ fpc = "check"
    /\ fpc' = "analyze" /\ status' = status
    /\ UNCHANGED <<script, calls, stages, written, flask_exists>>
    /\ UNCHANGED <<flines, fi, fcommits, freturned>>
    /\ UNCHANGED exceptFreq

\* lines 346-347: if not commits: return
FreqCheck ==
    /\ fpc = "check"
    /\ IF freturned = "None" \/ fcommits = <<>>
       THEN fpc' = "end" /\ status' = "returned"
       ELSE fpc' = "analyze" /\ status' = status
    /\ UNCHANGED <<script, calls, stages, written, flask_exists>>
    /\ UNCHANGED <<flines, fi, fcommits, freturned>>
    /\ UNCHANGED exceptFreq

\* line 350: analyze_time_distribution(commits); pd.to_datetime raises on a
\* date it cannot parse
FreqAnalyze ==
    /\ fpc = "analyze"
    /\ stages' = Append(stages, "analyze_time_distribution")
    /\ IF dates_parse(fcommits)
       THEN fpc' = "save" /\ status' = status
       ELSE fpc' = "end" /\ status' = "raised"
    /\ UNCHANGED <<script, calls, written, flask_exists>>
    /\ UNCHANGED <<flines, fi, fcommits, freturned>>
    /\ UNCHANGED exceptFreq

\* line 354: save_analysis_results writes its five CSV files
FreqSave ==
    /\ fpc = "save"
    /\ stages' = Append(stages, "save_analysis_results")
    /\ written' = written \o
          <<"yearly_commits.csv", "monthly_commits.csv",
            "year_month_commits.csv", "weekday_commits.csv",
            "sample_commits.csv">>
    /\ fpc' = "figures"
    /\ UNCHANGED <<script, calls, status, flask_exists>>
    /\ UNCHANGED <<flines, fi, fcommits, freturned>>
    /\ UNCHANGED exceptFreq

\* create_visualizations with its failure swallowed: main goes on to the report
FreqFigures_continue ==
    /\ fpc = "figures"
    /\ stages' = Append(stages, "create_visualizations")
    /\ IF all_months_present(fcommits)
       THEN written' = written \o
                   <<"yearly_commit_trend.png", "monthly_commit_distribution.png",
                     "recent_36months_trend.png", "weekday_commit_distribution.png">>
       ELSE written' = Append(written, "yearly_commit_trend.png")
    /\ fpc' = "report" /\ status' = status
    /\ UNCHANGED <<script, calls, flask_exists>>
    /\ UNCHANGED <<flines, fi, fcommits, freturned>>
    /\ UNCHANGED exceptFreq

\* line 357: create_visualizations saves the yearly figure, then raises at
\* line 125 unless every month has a commit, then saves the other three
FreqFigures ==
    /\ fpc = "figures"
    /\ stages' = Append(stages, "create_visualizations")
    /\ IF all_months_present(fcommits)
       THEN /\ written' = written \o
                   <<"yearly_commit_trend.png", "monthly_commit_distribution.png",
                     "recent_36months_trend.png", "weekday_commit_distribution.png">>
            /\ fpc' = "report" /\ status' = status
       ELSE /\ written' = Append(written, "yearly_commit_trend.png")
            /\ fpc' = "end" /\ status' = "raised"
    /\ UNCHANGED <<script, calls, flask_exists>>
    /\ UNCHANGED <<flines, fi, fcommits, freturned>>
    /\ UNCHANGED exceptFreq

\* lines 360-378: generate_report writes the report, and main returns
FreqReport ==
    /\ fpc = "report"
    /\ stages' = Append(stages, "generate_report")
    /\ written' = Append(written, "commit_frequency_report.md")
    /\ fpc' = "end"
    /\ status' = "returned"
    /\ UNCHANGED <<script, calls, flask_exists>>
    /\ UNCHANGED <<flines, fi, fcommits, freturned>>
    /\ UNCHANGED exceptFreq

NextFreq ==
    \/ FreqRunGit \/ FreqParseLine \/ FreqReturn \/ FreqCheck
    \/ FreqAnalyze \/ FreqSave \/ FreqFigures \/ FreqReport

-----------------------------------------------------------------------------
(* basic_commit_stats *)

\* the check of the directory without sys.exit(1)
BasicCheckDir_no_exit ==
    /\ script = "none"
    /\ pc = "start"
    /\ script' = "basic_commit_stats"
    /\ \E exists \in BOOLEAN :
          /\ flask_exists' = {exists}
          /\ spc' = "rev-list" /\ status' = status
          /\ calls' = invoke(calls, "dir")
    /\ UNCHANGED <<stages, written, returncodes>>
    /\ UNCHANGED exceptBasic

\* lines 26-35: the repository directory is looked up; without it the script
\* exits with status 1, with it the directory is listed
BasicCheckDir ==
    /\ script = "none"
    /\ pc = "start"
    /\ script' = "basic_commit_stats"
    /\ \E exists \in BOOLEAN :
          /\ flask_exists' = {exists}
          /\ IF exists
             THEN /\ spc' = "rev-list" /\ status' = status
                  /\ calls' = invoke(calls, "dir")
             ELSE /\ spc' = "end" /\ status' = "exit 1"
                  /\ calls' = calls
    /\ UNCHANGED <<stages, written, returncodes>>
    /\ UNCHANGED exceptBasic

\* subprocess.run without check=True: the exit code is not looked at
after_git_unchecked(returncode, next) == next

\* what a subprocess.run(..., check=True) of the try block leads to: a
\* non-zero exit code raises CalledProcessError, which line 112 catches
after_git(returncode, next) == IF returncode = 0 THEN next ELSE "finish"

\* lines 51-57: git rev-list --count HEAD
BasicRevList ==
    /\ spc = "rev-list"
    /\ calls' = invoke(calls, "git rev-list")
    /\ \E returncode \in {0, 128} :
          /\ returncodes' = Append(returncodes, returncode)
          /\ spc' = after_git(returncode, "first")
    /\ UNCHANGED <<script, stages, written, status, flask_exists>>
    /\ UNCHANGED exceptBasic

\* lines 60-66: git log --reverse
BasicFirstDate ==
    /\ spc = "first"
    /\ calls' = invoke(calls, "git log --reverse")
    /\ \E returncode \in {0, 128} :
          /\ returncodes' = Append(returncodes, returncode)
          /\ spc' = after_git(returncode, "last")
    /\ UNCHANGED <<script, stages, written, status, flask_exists>>
    /\ UNCHANGED exceptBasic

\* lines 69-75: git log -1
BasicLastDate ==
    /\ spc = "last"
    /\ calls' = invoke(calls, "git log -1")
    /\ \E returncode \in {0, 128} :
          /\ returncodes' = Append(returncodes, returncode)
          /\ spc' = after_git(returncode, "report")
    /\ UNCHANGED <<script, stages, written, status, flask_exists>>
    /\ UNCHANGED exceptBasic

\* lines 83-110: the report file is written
BasicReport ==
    /\ spc = "report"
    /\ written' = Append(written, "basic_commit_stats_report.md")
    /\ spc' = "finish"
    /\ UNCHANGED <<script, calls, stages, status, flask_exists, returncodes>>
    /\ UNCHANGED exceptBasic

\* lines 118-119: the script reaches its end
BasicFinish ==
    /\ spc = "finish"
    /\ spc' = "end"
    /\ status' = "returned"
    /\ UNCHANGED <<script, calls, stages, written, flask_exists, returncodes>>
    /\ UNCHANGED exceptBasic

NextBasic ==
    \/ BasicCheckDir \/ BasicRevList \/ BasicFirstDate \/ BasicLastDate
    \/ BasicReport \/ BasicFinish

-----------------------------------------------------------------------------
(* parse_version_number of release_analysis *)

\* str.lstrip(chars)
RECURSIVE LStrip(_, _)
LStrip(s, chars) ==
    IF s # "" /\ Ch(s, 1) \in chars THEN LStrip(SubSeq(s, 2, Len(s)), chars) ELSE s

\* s matches \d+
IsNumber(s) == s # "" /\ IsDigits(s)

\* s matches [a-zA-Z0-9.-]+
IsIdentifier(s) ==
    /\ s # ""
    /\ \A k \in 1..Len(s) :
           \/ IsWordCh(Ch(s, k)) /\ Ch(s, k) # "_"
           \/ Ch(s, k) \in {".", "-"}

\* re.match of r'^(\d+)\.(\d+)\.(\d+)(?:-([a-zA-Z0-9.-]+))?(?:\+([a-zA-Z0-9.-]+))?$'
\* on t: core is the text before the first '-' or '+', rest the text from
\* there on; group4 is whether group 4 took part in the match
semver_match(t) ==
    LET cuts  == {k \in 1..Len(t) : Ch(t, k) \in {"-", "+"}}
        c     == IF cuts = {} THEN Len(t) + 1 ELSE SetMin(cuts)
        core  == Split(SubSeq(t, 1, c - 1), ".", -1)
        rest  == SubSeq(t, c, Len(t))
        plus  == {k \in 1..Len(rest) : Ch(rest, k) = "+"}
        p     == IF plus = {} THEN Len(rest) + 1 ELSE SetMin(plus)
        restOk ==
            \/ rest = ""
            \/ /\ Ch(rest, 1) = "-"
               /\ IsIdentifier(SubSeq(rest, 2, p - 1))
               /\ p > Len(rest) \/ IsIdentifier(SubSeq(rest, p + 1, Len(rest)))
            \/ /\ Ch(rest, 1) = "+"
               /\ IsIdentifier(SubSeq(rest, 2, Len(rest)))
    IN  [ok     |-> /\ Len(core) = 3
                    /\ \A k \in 1..3 : IsNumber(core[k])
                    /\ restOk,
         groups |-> core,
         group4 |-> rest # "" /\ Ch(rest, 1) = "-"]

\* re.match of r'^(\d+)\.(\d+)$' on t
simple_match(t) ==
    LET parts == Split(t, ".", -1)
    IN  [ok     |-> Len(parts) = 2 /\ IsNumber(parts[1]) /\ IsNumber(parts[2]),
         groups |-> parts]

\* the if chain of lines 124-131 without its first test
version_type_no_prerelease(minor, patch, group4) ==
    IF patch = 0 /\ minor = 0 THEN "major"
    ELSE IF patch = 0 THEN "minor"
    ELSE "patch"

\* lines 124-131: the type of a version of three numbers
version_type(minor, patch, group4) ==
    IF group4 THEN "prerelease"
    ELSE IF patch = 0 /\ minor = 0 THEN "major"
    ELSE IF patch = 0 THEN "minor"
    ELSE "patch"

\* lines 105-143, on the tag already stripped of 'v' and 'V'
version_of(t, m, sm) ==
    IF m.ok
    THEN [major |-> {PyInt(m.groups[1]).val},
          minor |-> {PyInt(m.groups[2]).val},
          patch |-> {PyInt(m.groups[3]).val},
          type  |-> version_type(PyInt(m.groups[2]).val, PyInt(m.groups[3]).val,
                                 m.group4)]
    ELSE IF sm.ok
    THEN [major |-> {PyInt(sm.groups[1]).val},
          minor |-> {PyInt(sm.groups[2]).val},
          patch |-> {0},
          type  |-> IF PyInt(sm.groups[2]).val > 0 THEN "minor" ELSE "major"]
    ELSE [major |-> {}, minor |-> {}, patch |-> {}, type |-> "unknown"]

parse_version_number(tag) ==
    version_of(LStrip(Strip(tag), {"v", "V"}),
               semver_match(LStrip(Strip(tag), {"v", "V"})),
               simple_match(LStrip(Strip(tag), {"v", "V"})))

\* the decimal numeral of n
RECURSIVE Numeral(_)
Numeral(n) ==
    IF n < 10 THEN Ch(DigitChars, n + 1)
    ELSE Numeral(n \div 10) \o Ch(DigitChars, (n % 10) + 1)

\* the texts between the dots of a tag in this model
VersionParts == {Numeral(n) : n \in 0..MaxVersion} \cup {"10", "007", "x", ""}

\* what precedes and what follows the dotted part of a tag in this model
TagPrefixes == {"", "v", "V", "vV", "release-"}

TagSuffixes == {"", "-rc1", "-rc.1+build-5", "+build", "+a-b", "-", "-rc_1", "rc1", "-a+b+c"}

\* the arguments of parse_version_number in this model
VersionTags ==
    {pre \o Join(parts, ".") \o suf :
        pre \in TagPrefixes,
        parts \in UNION {[1..n -> VersionParts] : n \in 1..4},
        suf \in TagSuffixes}

\* parse_version_number called on a tag
ParseVersion ==
    /\ vpc = "idle"
    /\ \E tag \in VersionTags :
          /\ tag_arg' = tag
          /\ version_info' = parse_version_number(tag)
    /\ vpc' = "returned"
    /\ UNCHANGED exceptVersion

NextVersion == ParseVersion

SpecVersion == Init /\ [][NextVersion]_vars

-----------------------------------------------------------------------------
(* get_release_data and main of release_analysis *)

\* lines 44-45: the tags of the output of git tag -l, blanks dropped
RECURSIVE tag_list(_)
tag_list(ls) ==
    IF ls = <<>> THEN <<>>
    ELSE (IF Strip(Head(ls)) # "" THEN <<Strip(Head(ls))>> ELSE <<>>)
             \o tag_list(Tail(ls))

\* lines 75-85: the dict of one release
release_dict(tag, date, msg, info) ==
    [tag          |-> tag,
     date         |-> day_number(date),
     message      |-> msg,
     year         |-> PyInt(SubSeq(date, 1, 4)).val,
     month        |-> SubSeq(date, 1, 7),
     major        |-> info.major,
     minor        |-> info.minor,
     patch        |-> info.patch,
     version_type |-> info.type]

\* lines 62-85: the body of the loop over tags, given the exit code and the
\* output of git show; raised stands for the ValueError of the unpacking at
\* line 65 or of NaT.strftime at line 80, which line 99 catches
release_loop_body(tag, returncode, out, rel) ==
    LET ls    == Split(Strip(out), "\n", -1)
        parts == Split(ls[1], "|", 2)
        date  == to_datetime(Strip(parts[2]))
    IN  IF returncode # 0 \/ ~Contains(ls[1], "|")
        THEN [raised |-> FALSE, releases |-> rel]
        ELSE IF Len(parts) # 3
        THEN [raised |-> TRUE, releases |-> rel]
        ELSE IF ~date.ok
        THEN [raised |-> FALSE, releases |-> rel]
        ELSE IF date.val = NaT
        THEN [raised |-> TRUE, releases |-> rel]
        ELSE [raised |-> FALSE,
              releases |-> Append(rel, release_dict(tag, date.val, Strip(parts[3]),
                                                    parse_version_number(tag)))]

\* line 95: sort_values('date'): the orders it can leave the rows in
sorted_by_date(rel) ==
    LET N == Len(rel)
    IN  {[k \in 1..N |-> rel[p[k]]] :
            p \in {q \in [1..N -> 1..N] :
                      /\ \A a, b \in 1..N : a # b => q[a] # q[b]
                      /\ \A a, b \in 1..N : a < b => rel[q[a]].date <= rel[q[b]].date}}

\* the lines git tag -l prints in this model
TagLineSet == {"v1.0.0", "2.0", " "}

TagOutputs ==
    {Join(raw, "\n") : raw \in UNION {[1..n -> TagLineSet] : n \in 0..MaxTags}}

\* what git show --no-patch --format=%H|%ad|%s prints in this model
ShowOutputs ==
    {"abc|2024-01-05|Release\n", "def|2023-12-31| Older ", "abc|nodate|m",
     "abc||m", "abc|2024-01-05", "tag v1"}

\* lines 25-33: the repository directory is looked up
ReleaseCheckRepo ==
    /\ script = "none"
    /\ pc = "start"
    /\ script' = "release_analysis"
    /\ stages' = <<"get_release_data">>
    /\ \E exists \in BOOLEAN :
          /\ flask_exists' = {exists}
          /\ IF exists
             THEN rpc' = "tags" /\ rreturned' = rreturned
             ELSE rpc' = "check" /\ rreturned' = "None"
    /\ UNCHANGED <<calls, written, status>>
    /\ UNCHANGED <<tags, ri, releases>>
    /\ UNCHANGED exceptRelease

\* lines 37-51: git tag -l runs; its exit code and output are looked at
ReleaseTagList ==
    /\ rpc = "tags"
    /\ calls' = invoke(calls, "git tag")
    /\ \E returncode \in {0, 128}, out \in TagOutputs :
          LET ts == tag_list(Split(Strip(out), "\n", -1))
          IN  IF returncode # 0
              THEN rpc' = "check" /\ rreturned' = "None" /\ tags' = tags
              ELSE /\ tags' = ts
                   /\ IF ts = <<>>
                      THEN rpc' = "check" /\ rreturned' = "None"
                      ELSE rpc' = "show" /\ rreturned' = rreturned
    /\ UNCHANGED <<script, stages, written, status, flask_exists>>
    /\ UNCHANGED <<ri, releases>>
    /\ UNCHANGED exceptRelease

\* lines 56-85: one iteration of the loop: git show runs for the tag
ReleaseShow ==
    /\ rpc = "show"
    /\ ri <= Len(tags)
    /\ calls' = invoke(calls, "git show")
    /\ \E returncode \in {0, 128}, out \in ShowOutputs :
          LET r == release_loop_body(tags[ri], returncode, out, releases)
          IN  /\ releases' = r.releases
              /\ IF r.raised
                 THEN rpc' = "check" /\ rreturned' = "None" /\ ri' = ri
                 ELSE rpc' = "show" /\ rreturned' = rreturned /\ ri' = ri + 1
    /\ UNCHANGED <<script, stages, written, status, flask_exists>>
    /\ UNCHANGED tags
    /\ UNCHANGED exceptRelease

\* lines 87-97: the loop is over; no release gives None, else the sorted frame
ReleaseReturn ==
    /\ rpc = "show"
    /\ ri > Len(tags)
    /\ IF releases = <<>>
       THEN rreturned' = "None" /\ releases' = releases
       ELSE rreturned' = "frame" /\ releases' \in sorted_by_date(releases)
    /\ rpc' = "check"
    /\ UNCHANGED runVars
    /\ UNCHANGED <<tags, ri>>
    /\ UNCHANGED exceptRelease

\* lines 532-535: if releases_df is None or len(releases_df) == 0: return
ReleaseCheck ==
    /\ rpc = "check"
    /\ IF rreturned = "None" \/ releases = <<>>
       THEN rpc' = "end" /\ status' = "returned"
       ELSE rpc' = "analyze" /\ status' = status
    /\ UNCHANGED <<script, calls, stages, written, flask_exists>>
    /\ UNCHANGED <<tags, ri, releases, rreturned>>
    /\ UNCHANGED exceptRelease

\* line 538: analyze_releases(releases_df)
ReleaseAnalyze ==
    /\ rpc = "analyze"
    /\ stages' = Append(stages, "analyze_releases")
    /\ rpc' = "figures"
    /\ UNCHANGED <<script, calls, written, status, flask_exists>>
    /\ UNCHANGED <<tags, ri, releases, rreturned>>
    /\ UNCHANGED exceptRelease

\* line 541: create_visualizations saves its three figures
ReleaseFigures ==
    /\ rpc = "figures"
    /\ stages' = Append(stages, "create_visualizations")
    /\ written' = written \o
          <<"yearly_releases.png", "release_types.png", "release_timeline.png">>
    /\ rpc' = "save"
    /\ UNCHANGED <<script, calls, status, flask_exists>>
    /\ UNCHANGED <<tags, ri, releases, rreturned>>
    /\ UNCHANGED exceptRelease

\* line 544: save_data writes the CSV file and the JSON file
ReleaseSave ==
    /\ rpc = "save"
    /\ stages' = Append(stages, "save_data")
    /\ written' = written \o <<"releases_summary.csv", "release_patterns.json">>
    /\ rpc' = "report"
    /\ UNCHANGED <<script, calls, status, flask_exists>>
    /\ UNCHANGED <<tags, ri, releases, rreturned>>
    /\ UNCHANGED exceptRelease

\* lines 547-555: generate_report writes the report, and main returns
ReleaseReport ==
    /\ rpc = "report"
    /\ stages' = Append(stages, "generate_report")
    /\ written' = Append(written, "release_analysis_report.md")
    /\ rpc' = "end"
    /\ status' = "returned"
    /\ UNCHANGED <<script, calls, flask_exists>>
    /\ UNCHANGED <<tags, ri, releases, rreturned>>
    /\ UNCHANGED exceptRelease

NextRelease ==
    \/ ReleaseCheckRepo \/ ReleaseTagList \/ ReleaseShow \/ ReleaseReturn
    \/ ReleaseCheck \/ ReleaseAnalyze \/ ReleaseFigures \/ ReleaseSave
    \/ ReleaseReport

-----------------------------------------------------------------------------
(* A run of any one of the six scripts *)

NextScripts ==
    \/ NextTypeMain \/ NextFreq \/ NextContrib
    \/ NextRelease \/ NextBasic \/ NextBugs

SpecScripts == Init /\ [][NextScripts]_vars

-----------------------------------------------------------------------------
(* C11..C13: the priority order and the examples of classify_commit_type *)

\* the fixed order of the labels
LabelOrder ==
    <<"feature", "bugfix", "refactor", "documentation", "test", "style",
      "chore", "performance">>

\* some pattern listed for label l matches the subject s
LabelMatches(l, s) ==
    \E g \in 1..Len(patterns) :
        /\ patterns[g].type = l
        /\ \E j \in 1..Len(patterns[g].regex_list) :
               re_search(patterns[g].regex_list[j], s)

\* C11: the label returned for a subject is the first label of the fixed
\* order that has a matching pattern, and 'other' when no label has one;
\* 'Add fix for timeout', which matches feature and bugfix, is feature.
C11_FirstLabelWins ==
    (cpc = "returned" /\ message.type = "str")
    => LET hits == {n \in 1..Len(LabelOrder) : LabelMatches(LabelOrder[n], message.val)}
       IN  /\ hits = {} => label = "other"
           /\ hits # {} =>
                  /\ label = LabelOrder[SetMin(hits)]
                  /\ \A n \in 1..Len(LabelOrder) :
                         LabelOrder[n] = label => n \in hits /\ \A h \in hits : n <= h
           /\ message.val = "Add fix for timeout" => label = "feature"

\* C11 witness: the subject that matches feature and bugfix was classified
C11_Witness ==
    /\ cpc = "returned"
    /\ message = Str("Add fix for timeout")
    /\ LabelMatches("feature", message.val)
    /\ LabelMatches("bugfix", message.val)
    /\ label = "feature"

\* C12: the subject 'Update docs for routing' is classified documentation.
C12_UpdateDocsIsDocumentation ==
    (cpc = "returned" /\ message = Str("Update docs for routing"))
    => label = "documentation"

\* C13: the six examples: bugfix, feature, refactor, chore, performance, and
\* other for the empty string.
C13_Examples ==
    cpc = "returned" =>
        /\ message = Str("Fix bug in request parsing") => label = "bugfix"
        /\ message = Str("Add new feature for sessions") => label = "feature"
        /\ message = Str("Refactor internal cache logic") => label = "refactor"
        /\ message = Str("Bump build tool to v2") => label = "chore"
        /\ message = Str("Improve performance of template rendering")
               => label = "performance"
        /\ message = Str("") => label = "other"

\* C13 witness: one of the examples was classified
C13_Witness ==
    /\ cpc = "returned"
    /\ message = Str("Refactor internal cache logic")
    /\ label = "refactor"

-----------------------------------------------------------------------------
(* C14: the tiers of classify_contributor *)

Tiers ==
    {"Core Contributor", "Active Contributor", "Regular Contributor",
     "Occasional Contributor", "One-time Contributor"}

\* C14: for every row with commit_count >= 1 and active_days >= 0 the result
\* is one of the five tiers, by first match: Core iff commits >= 100 and
\* active_days >= 365; else Active iff commits >= 50; else Regular iff
\* commits >= 10; else Occasional iff commits >= 2; else One-time.  At least
\* 100 commits with fewer than 365 active days is Active, and One-time is
\* returned exactly when commit_count = 1.
C14_TierTable ==
    tpc = "returned" =>
        LET c == row.commit_count
            d == row.active_days
            core == c >= 100 /\ d >= 365
        IN  /\ tier \in Tiers
            /\ tier = "Core Contributor" <=> core
            /\ tier = "Active Contributor" <=> (~core /\ c >= 50)
            /\ tier = "Regular Contributor" <=> (c < 50 /\ c >= 10)
            /\ tier = "Occasional Contributor" <=> (c < 10 /\ c >= 2)
            /\ tier = "One-time Contributor" <=> c = 1
            /\ (c >= 100 /\ d < 365) => tier = "Active Contributor"

\* C14 witness: a row with at least 100 commits and a short active span
C14_Witness ==
    /\ tpc = "returned"
    /\ row.commit_count >= 100
    /\ row.active_days < 365
    /\ tier = "Active Contributor"

-----------------------------------------------------------------------------
(* C15: the rows of analyze_contributor_stats *)

\* the number of elements of cs whose author is a
RECURSIVE CommitsOf(_, _)
CommitsOf(cs, a) ==
    IF cs = <<>> THEN 0
    ELSE (IF Head(cs).author = a THEN 1 ELSE 0) + CommitsOf(Tail(cs), a)

\* analyze_contributor_stats has returned
StatsReturned == kpc \in {"patterns", "save", "figures", "report"}

\* C15: in every row of author_stats first_commit <= last_commit,
\* commit_count is the number of input commits of the row's author, and
\* active_days is the difference last_commit - first_commit in whole days,
\* never negative, and 0 for an author whose commits all fall on one day.
C15_AuthorRows ==
    StatsReturned =>
        \A n \in 1..Len(author_stats) :
            LET r == author_stats[n]
                dates == {kcommits[k].date :
                             k \in {j \in 1..Len(kcommits) : kcommits[j].author = r.author}}
            IN  /\ r.first_commit <= r.last_commit
                /\ r.commit_count = CommitsOf(kcommits, r.author)
                /\ r.commit_count >= 1
                /\ r.active_days = r.last_commit - r.first_commit
                /\ r.active_days >= 0
                /\ Cardinality(dates) = 1 => r.active_days = 0
                /\ \A d \in dates : r.first_commit <= day_number(d)
                                    /\ day_number(d) <= r.last_commit

\* C15 witness: an author with commits on two different days has a row
C15_Witness ==
    /\ StatsReturned
    /\ \E n \in 1..Len(author_stats) :
          /\ author_stats[n].commit_count = 2
          /\ author_stats[n].active_days = 56
          /\ author_stats[n].first_commit < author_stats[n].last_commit

-----------------------------------------------------------------------------
(* C16, C17: analyze_bugs *)

\* the numbers of the objects of a list that have no key pull_request
RECURSIVE PlainNumbers(_)
PlainNumbers(is) ==
    IF is = <<>> THEN <<>>
    ELSE (IF "pull_request" \in DOMAIN Head(is) THEN <<>>
          ELSE <<Head(is)["number"]>>) \o PlainNumbers(Tail(is))

\* the loop of analyze_and_save is over
BugLoopDone == bpc \in {"figure", "end"} /\ Len(written) > 0

\* C16: for a non-empty issue list, once the loop of analyze_and_save is
\* over data_list holds exactly one record per object without the key
\* pull_request, in input order, and none for the objects with the key;
\* one flagged object and one plain issue give exactly one record.
C16_OneRecordPerPlainIssue ==
    /\ (issues # <<>> /\ BugLoopDone) =>
           /\ Len(data_list) = Len(PlainNumbers(issues))
           /\ \A n \in 1..Len(data_list) : data_list[n].id = PlainNumbers(issues)[n]
    /\ (bpc = "loop" /\ bi <= Len(issues) + 1) =>
           Len(data_list) = Len(PlainNumbers(SubSeq(issues, 1, bi - 1)))

\* C16 witness: a flagged object followed by a plain issue gave one record
C16_Witness ==
    /\ BugLoopDone
    /\ Len(issues) = 2
    /\ "pull_request" \in DOMAIN issues[1]
    /\ "pull_request" \notin DOMAIN issues[2]
    /\ Len(data_list) = 1
    /\ data_list[1].id = issues[2]["number"]

\* C17: when the status of the response is not 200, fetch_bugs returns an
\* empty list, and analyze_and_save, given an empty list, returns at once:
\* it enters no loop and writes neither the CSV file nor the figure.
C17_Non200WritesNothing ==
    /\ (script = "analyze_bugs" /\ status_code \notin {0, 200}) =>
           /\ issues = <<>>
           /\ written = <<>>
           /\ data_list = <<>>
           /\ bpc \in {"check", "end"}
           /\ bpc = "end" => status = "returned"
    /\ (script = "analyze_bugs" /\ bpc \notin {"idle", "check"} /\ issues = <<>>) =>
           /\ written = <<>>
           /\ bpc = "end"

\* C17 witness: a run that got status 403 has ended
C17_Witness ==
    /\ script = "analyze_bugs"
    /\ status_code = 403
    /\ stages = <<"fetch_bugs", "analyze_and_save">>
    /\ bpc = "end"
    /\ status = "returned"
    /\ written = <<>>

-----------------------------------------------------------------------------
(* C18..C20: the runs of the scripts *)

\* the number of elements of the sequence log that are equal to cmd
RECURSIVE Times(_, _)
Times(log, cmd) ==
    IF log = <<>> THEN 0
    ELSE (IF Head(log) = cmd THEN 1 ELSE 0) + Times(Tail(log), cmd)

\* the run has got the answer of its git log call or of its HTTP request
GotAnswer ==
    \/ script = "analyze_bugs" /\ bpc # "idle"
    \/ script = "commit_type_analysis" /\ flask_exists = {TRUE} /\ pc \in {"loop", "done"}
    \/ script = "commit_frequency_analysis" /\ fpc # "idle"
    \/ script = "contributor_analysis" /\ kpc # "idle"

\* C18: no external call is retried: a run of analyze_bugs issues exactly
\* one HTTP GET, for page 1, whatever the status of the response, and
\* get_commit_data of commit_type_analysis and of commit_frequency_analysis
\* and get_contributor_data invoke git log exactly once whatever its exit
\* code; no run issues any command twice, the git show of release_analysis
\* apart, which runs once per tag.
C18_EachCallOnce ==
    /\ script = "analyze_bugs" =>
           /\ Len(calls) <= 1
           /\ GotAnswer => calls = <<"GET issues page=1">>
    /\ script \in {"commit_type_analysis", "commit_frequency_analysis",
                   "contributor_analysis"} =>
           /\ Len(calls) <= 1
           /\ GotAnswer => calls = <<"git log">>
    /\ \A n \in 1..Len(calls) :
           calls[n] # "git show" => Times(calls, calls[n]) = 1
    /\ script = "release_analysis" => Times(calls, "git show") <= Len(tags)

\* C18 witness: git log has failed in get_commit_data and the run has ended
C18_Witness ==
    /\ script = "commit_type_analysis"
    /\ flask_exists = {TRUE}
    /\ pc = "done"
    /\ lines = <<>>
    /\ returned = "None"
    /\ mpc = "end"
    /\ calls = <<"git log">>

\* C19: when the repository directory does not exist, basic_commit_stats
\* exits with a non-zero status before any git command and without the report
\* file, and get_commit_data of commit_type_analysis and get_release_data
\* return None without invoking git.
C19_MissingRepository ==
    flask_exists = {FALSE} =>
        /\ calls = <<>>
        /\ written = <<>>
        /\ script = "basic_commit_stats" => spc = "end" /\ status = "exit 1"
        /\ script = "commit_type_analysis" => pc = "done" /\ returned = "None"
        /\ script = "release_analysis" =>
               rpc \in {"check", "end"} /\ rreturned = "None"

\* C19 witness: basic_commit_stats has found no repository directory
C19_Witness ==
    /\ script = "basic_commit_stats"
    /\ flask_exists = {FALSE}
    /\ status = "exit 1"

\* the functions of the four analysis scripts, by stage
Extraction == {"get_commit_data", "get_contributor_data", "get_release_data"}

Analysis ==
    {"analyze_commits", "analyze_time_distribution", "analyze_contributor_stats",
     "analyze_contribution_patterns", "analyze_releases"}

Output ==
    {"create_visualizations", "save_data", "save_analysis_results",
     "generate_report"}

StageRank(f) ==
    IF f \in Extraction THEN 1 ELSE IF f \in Analysis THEN 2 ELSE 3

AnalysisScripts ==
    {"commit_type_analysis", "commit_frequency_analysis",
     "contributor_analysis", "release_analysis"}

\* the extraction of the running script has returned without data
NoData ==
    \/ script = "commit_type_analysis"
           /\ (returned = "None" \/ (returned = "commits" /\ commits = <<>>))
    \/ script = "commit_frequency_analysis"
           /\ (freturned = "None" \/ (freturned = "commits" /\ fcommits = <<>>))
    \/ script = "contributor_analysis"
           /\ (kreturned = "None" \/ (kreturned = "commits" /\ kcommits = <<>>))
    \/ script = "release_analysis"
           /\ (rreturned = "None" \/ (rreturned = "frame" /\ releases = <<>>))

\* main of the running script has ended
Ended ==
    \/ script = "commit_type_analysis" /\ mpc = "end"
    \/ script = "commit_frequency_analysis" /\ fpc = "end"
    \/ script = "contributor_analysis" /\ kpc = "end"
    \/ script = "release_analysis" /\ rpc = "end"

\* C20: in the four analysis scripts the stages run in the order extraction,
\* analysis, output: extraction is first and runs once, no analysis follows
\* an output, and files are written only once an analysis and an output
\* stage have run; when extraction yields no data (missing repository,
\* non-zero exit of git, or no parsed record) no later stage runs, no file
\* is written, and main returns.
C20_StagesInOrder ==
    script \in AnalysisScripts =>
        /\ Len(stages) >= 1 /\ stages[1] \in Extraction
        /\ \A n \in 1..Len(stages) : stages[n] \in Extraction \cup Analysis \cup Output
        /\ \A a, b \in 1..Len(stages) :
               a < b => /\ StageRank(stages[a]) <= StageRank(stages[b])
                        /\ stages[a] # stages[b]
                        /\ stages[b] \notin Extraction
        /\ written # <<>> =>
               /\ \E n \in 1..Len(stages) : stages[n] \in Analysis
               /\ \E n \in 1..Len(stages) : stages[n] \in Output
        /\ NoData =>
               /\ Len(stages) = 1
               /\ written = <<>>
               /\ Ended => status = "returned"

\* C20 witness: git log printed lines but none parsed, and main has returned
C20_Witness ==
    /\ script = "commit_frequency_analysis"
    /\ freturned = "commits"
    /\ flines # <<>>
    /\ fcommits = <<>>
    /\ fpc = "end"
    /\ status = "returned"
    /\ written = <<>>

-----------------------------------------------------------------------------
(* C21: the loops of get_commit_data of commit_frequency_analysis and of
   get_contributor_data *)

\* C21: get_commit_data of commit_frequency_analysis and get_contributor_data
\* raise for no output of git log: as long as either has not returned, the run
\* has not been left by an exception.
C21_GetDataNeverRaises ==
    /\ (script = "commit_frequency_analysis" /\ freturned = "pending")
           => status = "running"
    /\ (script = "contributor_analysis" /\ kreturned = "pending")
           => status = "running"

-----------------------------------------------------------------------------
(* C22, C23: the tables of analyze_commits *)

\* the sum of f[x][field] over the x of S
RECURSIVE SumField(_, _, _)
SumField(f, S, field) ==
    IF S = {} THEN 0
    ELSE LET x == CHOOSE y \in S : TRUE
         IN  f[x][field] + SumField(f, S \ {x}, field)

\* the dict type_stats, once analyze_commits has assigned it
TypeStats == CHOOSE ts \in type_stats : TRUE

\* C22: every record is counted under exactly one commit type: the keys of
\* type_stats are the types that occur, the count of a type is the number of
\* records of that type, the counts sum to the number of records, percentage
\* is count / total * 100, and the total_changed_lines of the types sum to the
\* changed lines of all records.
C22_TypeCounts ==
    type_stats # {} =>
        LET all == 1..Len(arg_commits)
        IN  /\ DOMAIN TypeStats = {arg_commits[n].commit_type : n \in all}
            /\ \A n \in all :
                   Cardinality({t \in DOMAIN TypeStats : arg_commits[n].commit_type = t}) = 1
            /\ \A t \in DOMAIN TypeStats :
                   /\ TypeStats[t].count
                          = Cardinality({n \in all : arg_commits[n].commit_type = t})
                   /\ TypeStats[t].percentage.num = TypeStats[t].count * 100
                   /\ TypeStats[t].percentage.den = Len(arg_commits)
            /\ SumField(TypeStats, DOMAIN TypeStats, "count") = Len(arg_commits)
            /\ SumField(TypeStats, DOMAIN TypeStats, "total_changed_lines")
                   = SumField(arg_commits, all, "changed_lines")

\* C22 witness: analyze_commits returned for three records of two types, one
\* type counted twice, with additions and deletions among them
C22_Witness ==
    /\ apc = "returned"
    /\ Len(arg_commits) = 3
    /\ Cardinality(DOMAIN TypeStats) = 2
    /\ \E t \in DOMAIN TypeStats :
          TypeStats[t].count = 2 /\ TypeStats[t].total_changed_lines > 0
    /\ \E n \in 1..3 : arg_commits[n].deletions > 0


\* the frame file_stats, once analyze_commits has assigned it
FileStats == CHOOSE fs \in file_stats : TRUE

\* every file change of the records, as the pair <<n, f>> of the index of
\* its record and its index in the file list of the record
Changes ==
    UNION {{<<n, f>> : f \in 1..Len(arg_commits[n].files)} :
              n \in 1..Len(arg_commits)}

\* the file changes that carry the filename name
ChangesOf(name) ==
    {p \in Changes : arg_commits[p[1]].files[p[2]].filename = name}

\* the sum of additions + deletions over the file changes of the set ps
RECURSIVE LinesOf(_)
LinesOf(ps) ==
    IF ps = {} THEN 0
    ELSE LET p == CHOOSE q \in ps : TRUE
             c == arg_commits[p[1]].files[p[2]]
         IN  c.additions + c.deletions + LinesOf(ps \ {p})

\* C23: file_stats has one row per distinct filename of the records, sorted by
\* commit_count in non-increasing order; the commit_count of a file is the
\* number of records that touch it, its total_changed_lines the sum of
\* additions + deletions over its file changes, and its author_count the
\* number of distinct authors of the records that touch it.
C23_FileTable ==
    file_stats # {} =>
        /\ \A a, b \in 1..Len(FileStats) :
               a < b => /\ FileStats[a].filename # FileStats[b].filename
                        /\ FileStats[a].commit_count >= FileStats[b].commit_count
        /\ \A p \in Changes :
               \E k \in 1..Len(FileStats) :
                   FileStats[k].filename = arg_commits[p[1]].files[p[2]].filename
        /\ \A k \in 1..Len(FileStats) :
               LET touching == {p[1] : p \in ChangesOf(FileStats[k].filename)}
               IN  /\ touching # {}
                   /\ FileStats[k].commit_count = Cardinality(touching)
                   /\ FileStats[k].total_changed_lines
                          = LinesOf(ChangesOf(FileStats[k].filename))
                   /\ FileStats[k].author_count
                          = Cardinality({arg_commits[n].author : n \in touching})


-----------------------------------------------------------------------------
(* C24: what a stat line does to the record in progress *)

\* C24: reading a line that contains a tab emits no record and opens none; if
\* the line has exactly three tab-separated fields and a record is in
\* progress, exactly one file change is added to that record, also when the
\* first or the last field is empty; any other such line leaves every record
\* as it was.
C24_StatLineFrame ==
    [][(/\ pc = "loop"
        /\ i <= Len(lines)
        /\ Count(lines[i], "\t") > 0)
       => /\ commits' = commits
          /\ current_commit' = current_commit
          /\ Len(heap') = Len(heap)
          /\ IF ThreeFieldStat(lines[i]) /\ current_commit # 0
             THEN LET old == heap[current_commit]
                      new == heap'[current_commit]
                  IN  /\ Len(new.files) = Len(old.files) + 1
                      /\ SubSeq(new.files, 1, Len(old.files)) = old.files
                      /\ new.file_count = old.file_count + 1
                      /\ \A k \in 1..Len(heap) : k # current_commit => heap'[k] = heap[k]
             ELSE heap' = heap]_vars


-----------------------------------------------------------------------------
(* C25: basic_commit_stats with the repository directory in place *)

\* the commands of basic_commit_stats, in the order of the script
BasicCommands == <<"dir", "git rev-list", "git log --reverse", "git log -1">>

\* some git command of the run has failed
GitFailed == \E n \in 1..Len(returncodes) : returncodes[n] # 0

\* C25: with the repository directory in place, the report file is written
\* only after the three git commands have all succeeded; once one of them
\* has failed no further git command is run and no report file is written,
\* and the script goes on to its end and exits with status 0.
C25_ReportAfterThreeGit ==
    (script = "basic_commit_stats" /\ flask_exists = {TRUE}) =>
        /\ calls = SubSeq(BasicCommands, 1, Len(calls))
        /\ Len(returncodes) = Len(calls) - 1
        /\ written # <<>> =>
               /\ written = <<"basic_commit_stats_report.md">>
               /\ Len(returncodes) = 3
               /\ \A n \in 1..3 : returncodes[n] = 0
        /\ GitFailed =>
               /\ \A n \in 1..(Len(returncodes) - 1) : returncodes[n] = 0
               /\ written = <<>>
               /\ spc \in {"finish", "end"}
        /\ status \in {"running", "returned"}
        /\ spc = "end" =>
               /\ status = "returned"
               /\ written = <<>> <=> GitFailed

\* C25 witness: the second git command failed, the third was not run, and the
\* script has reached its end without the report
C25_Witness ==
    /\ script = "basic_commit_stats"
    /\ returncodes = <<0, 128>>
    /\ calls = <<"dir", "git rev-list", "git log --reverse">>
    /\ spc = "end"
    /\ status = "returned"
    /\ written = <<>>


-----------------------------------------------------------------------------
(* C26: the files of a run of commit_frequency_analysis that fails partway *)

\* the files of a complete run, in the order they are written
FreqFiles ==
    <<"yearly_commits.csv", "monthly_commits.csv", "year_month_commits.csv",
      "weekday_commits.csv", "sample_commits.csv",
      "yearly_commit_trend.png", "monthly_commit_distribution.png",
      "recent_36months_trend.png", "weekday_commit_distribution.png",
      "commit_frequency_report.md">>

\* create_visualizations was the last stage to run and raised
FiguresFailed ==
    /\ script = "commit_frequency_analysis"
    /\ status = "raised"
    /\ stages[Len(stages)] = "create_visualizations"

\* C26: the files of commit_frequency_analysis are written one after the
\* other and none is taken back: once save_analysis_results has run its five
\* CSV files stay written, and when create_visualizations then fails they are
\* still there and the report file is not written, then or later.
C26_PartialOutputsStay ==
    script = "commit_frequency_analysis" =>
        /\ written = SubSeq(FreqFiles, 1, Len(written))
        /\ (\E n \in 1..Len(stages) : stages[n] = "save_analysis_results")
               => Len(written) >= 5
        /\ FiguresFailed =>
               /\ fpc = "end"
               /\ SubSeq(written, 1, 5) = SubSeq(FreqFiles, 1, 5)
               /\ \A n \in 1..Len(written) : written[n] # "commit_frequency_report.md"
               /\ \A n \in 1..Len(stages) : stages[n] # "generate_report"

\* C26 witness: some month has no commit, create_visualizations has failed
\* after its first figure, and the five CSV files are in place
C26_Witness ==
    /\ FiguresFailed
    /\ ~all_months_present(fcommits)
    /\ written = SubSeq(FreqFiles, 1, 6)


-----------------------------------------------------------------------------
(* C27: where the patterns of classify_commit_type are anchored *)

\* the string s with the case of every letter changed
RECURSIVE SwapCase(_)
SwapCase(s) ==
    IF s = "" THEN ""
    ELSE LET c == Ch(s, 1)
             up == {k \in 1..26 : Ch(UpperChars, k) = c}
             lo == {k \in 1..26 : Ch(LowerChars, k) = c}
         IN  (IF up # {} THEN Ch(LowerChars, CHOOSE k \in up : TRUE)
              ELSE IF lo # {} THEN Ch(UpperChars, CHOOSE k \in lo : TRUE)
              ELSE c) \o SwapCase(SubSeq(s, 2, Len(s)))

\* the keyword w, in any letter case, occurs in s with the end of s or a
\* character that is no word character right after it
EndsWord(w, s) ==
    \E p \in 1..(Len(s) - Len(w) + 1) :
        /\ LowerCh(Ch(s, p)) = Ch(w, 1)
        /\ Lower(SubSeq(s, p, p + Len(w) - 1)) = w
        /\ \/ p + Len(w) - 1 = Len(s)
           \/ ~IsWordCh(Ch(s, p + Len(w)))

\* the patterns that are a keyword and a word boundary, as <<group, index>>
KeywordPatterns ==
    {gj \in (1..Len(patterns)) \X (1..5) :
        /\ gj[2] <= Len(patterns[gj[1]].regex_list)
        /\ patterns[gj[1]].regex_list[gj[2]].then = ""}

\* C27: a keyword pattern matches a subject exactly when the keyword occurs
\* in it with a word boundary right after it, whatever stands before it and
\* in whatever letter case: 'prefix' is bugfix through 'fix' and 'latest' is
\* test through 'test', while 'fixes', 'docs', 'tests' and 'added' match no
\* pattern; a subject and the same subject in the other letter case get the
\* same label.
C27_EndAnchored ==
    (cpc = "returned" /\ message.type = "str") =>
        /\ \A gj \in KeywordPatterns :
               \A occurs \in {EndsWord(patterns[gj[1]].regex_list[gj[2]].word,
                                        message.val)} :
                   /\ re_search(patterns[gj[1]].regex_list[gj[2]], message.val)
                          <=> occurs
                   /\ occurs => label \in {patterns[g].type : g \in 1..gj[1]}
        /\ label = classify_commit_type(Str(SwapCase(message.val)))
        /\ message.val \in {"prefix", "PREFIX"} => label = "bugfix"
        /\ message.val = "latest" => label = "test"
        /\ message.val \in {"fixes", "docs", "tests", "added", "bugfixes"}
               => label = "other"

\* C27 witness: 'PREFIX' was classified bugfix
C27_Witness ==
    cpc = "returned" /\ message = Str("PREFIX") /\ label = "bugfix"


-----------------------------------------------------------------------------
(* C28: changed_lines, file_count and the change-size buckets *)

\* changed_lines and file_count of the record r agree with its other fields
Consistent(r) ==
    /\ r.changed_lines = r.additions + r.deletions
    /\ r.file_count = Len(r.files)
    /\ \A f \in 1..Len(r.files) :
           r.files[f].changed_lines = r.files[f].additions + r.files[f].deletions

\* the locals small, medium and large, once analyze_commits has assigned them
Sizes == CHOOSE z \in sizes : TRUE

\* C28: every record the parser builds has changed_lines = additions +
\* deletions and file_count = the length of its file list, and each of its
\* file changes has changed_lines = its own additions + deletions; the three
\* buckets of analyze_commits (at most 10, 11 to 100, more than 100 changed
\* lines) hold every record exactly once, and small + medium + large is the
\* number of records.
C28_BucketsPartition ==
    /\ \A k \in 1..Len(heap) : Consistent(heap[k])
    /\ \A n \in 1..Len(arg_commits) : Consistent(arg_commits[n])
    /\ sizes # {} =>
           LET all  == 1..Len(arg_commits)
               S    == {n \in all : arg_commits[n].changed_lines <= 10}
               M    == {n \in all : arg_commits[n].changed_lines \in 11..100}
               L    == {n \in all : arg_commits[n].changed_lines > 100}
           IN  /\ S \cup M \cup L = all
               /\ S \cap M = {} /\ S \cap L = {} /\ M \cap L = {}
               /\ Sizes.small = Cardinality(S)
               /\ Sizes.medium = Cardinality(M)
               /\ Sizes.large = Cardinality(L)
               /\ Sizes.small + Sizes.medium + Sizes.large = Len(arg_commits)

\* C28 witness: analyze_commits returned for a record of exactly 10 changed
\* lines and a record of more than 100
C28_Witness ==
    /\ apc = "returned"
    /\ sizes # {}
    /\ \E n \in 1..Len(arg_commits) : arg_commits[n].changed_lines = 10
    /\ Sizes.small >= 1
    /\ Sizes.large >= 1


-----------------------------------------------------------------------------
(* C29: the new contributors of each year *)

\* the sum of f[x] over the x of S
RECURSIVE SumOver(_, _)
SumOver(f, S) ==
    IF S = {} THEN 0
    ELSE LET x == CHOOSE y \in S : TRUE
         IN  f[x] + SumOver(f, S \ {x})

\* the dict patterns, once analyze_contribution_patterns has returned it
Patterns == patterns_k[1]

\* the earliest year in which the author a has a commit
FirstYear(a) ==
    SetMin({kcommits[n].year : n \in {k \in 1..Len(kcommits) : kcommits[k].author = a}})

\* C29: every author is a new contributor in exactly one year, the earliest
\* year in which the author has a commit: yearly_new_authors[y] is the number
\* of authors whose first year is y, its values sum to total_unique_authors,
\* which is the number of rows of author_stats, and in no year are there
\* more new authors than active authors.
C29_NewAuthorsOnce ==
    patterns_k # <<>> =>
        LET authors == {kcommits[n].author : n \in 1..Len(kcommits)}
            years   == {kcommits[n].year : n \in 1..Len(kcommits)}
            new     == Patterns.yearly_new_authors
            active  == Patterns.yearly_active_authors
        IN  /\ DOMAIN new = years
            /\ DOMAIN active = years
            /\ \A y \in years :
                   /\ new[y] = Cardinality({a \in authors : FirstYear(a) = y})
                   /\ new[y] <= active[y]
            /\ SumOver(new, years) = Patterns.total_unique_authors
            /\ Patterns.total_unique_authors = Cardinality(authors)
            /\ Patterns.total_unique_authors = Len(author_stats)

\* C29 witness: two authors over three years, one of them active again in a
\* year in which nobody is new
C29_Witness ==
    /\ patterns_k # <<>>
    /\ Patterns.total_unique_authors = 2
    /\ Cardinality(DOMAIN Patterns.yearly_new_authors) = 3
    /\ \E y \in DOMAIN Patterns.yearly_new_authors :
          /\ Patterns.yearly_new_authors[y] = 0
          /\ Patterns.yearly_active_authors[y] = 1


-----------------------------------------------------------------------------
(* C30 *)

\* the tag of the call without its surrounding blanks and its leading 'v's
VersionText == LStrip(Strip(tag_arg), {"v", "V"})

\* the tag is X.Y.Z, possibly followed by a '-' suffix and a '+' suffix
IsXYZ == semver_match(VersionText).ok

\* the tag is X.Y.Z followed by a '-' suffix
HasDashSuffix == IsXYZ /\ semver_match(VersionText).group4

\* the tag is X.Y
IsXY == simple_match(VersionText).ok

\* the k-th number of the tag
VersionNumber(k) == PyInt(Split(VersionText, ".", -1)[k]).val

\* the third number of an X.Y.Z tag, whose text ends where a suffix begins
ThirdNumber == PyInt(semver_match(VersionText).groups[3]).val

\* C30: parse_version_number gives every tag one type among major, minor,
\* patch, prerelease and unknown, after the leading 'v' and 'V' are
\* stripped: X.Y.Z with a '-' suffix is a prerelease; X.Y.Z without it is
\* major iff Y = 0 and Z = 0, minor iff Z = 0 and Y # 0, patch iff Z # 0;
\* X.Y has patch 0 and is minor iff Y > 0, else major; any other tag is
\* unknown with major, minor and patch all None
C30_VersionTypes ==
    vpc = "returned" =>
        /\ version_info.type \in {"major", "minor", "patch", "prerelease", "unknown"}
        /\ HasDashSuffix => version_info.type = "prerelease"
        /\ IsXYZ /\ ~HasDashSuffix =>
               /\ version_info.type = "major"
                      <=> VersionNumber(2) = 0 /\ ThirdNumber = 0
               /\ version_info.type = "minor"
                      <=> ThirdNumber = 0 /\ VersionNumber(2) # 0
               /\ version_info.type = "patch" <=> ThirdNumber # 0
        /\ IsXYZ =>
               /\ version_info.major = {VersionNumber(1)}
               /\ version_info.minor = {VersionNumber(2)}
               /\ version_info.patch = {ThirdNumber}
        /\ IsXY =>
               /\ version_info.major = {VersionNumber(1)}
               /\ version_info.minor = {VersionNumber(2)}
               /\ version_info.patch = {0}
               /\ version_info.type = "minor" <=> VersionNumber(2) > 0
               /\ version_info.type = "major" <=> ~(VersionNumber(2) > 0)
        /\ ~IsXYZ /\ ~IsXY =>
               /\ version_info.type = "unknown"
               /\ version_info.major = {}
               /\ version_info.minor = {}
               /\ version_info.patch = {}

\* a 'v' tag of three numbers with a '-' suffix has been parsed into a
\* prerelease
C30_Witness ==
    /\ vpc = "returned"
    /\ tag_arg = "v1.2.0-rc1"
    /\ version_info = [major |-> {1}, minor |-> {2}, patch |-> {0},
                       type |-> "prerelease"]

=============================================================================
